---- MODULE Spec2Model ----
(***************************************************************************)
(* Model of the SailPoint IdentityNow OAA connector                        *)
(* (connectors/sailpoint-identitynow/oaa_sailpoint-identitynow.py).        *)
(*                                                                         *)
(* One run of SailPointOAAProvider.sync is a state machine whose steps are *)
(* the blocking calls of sync: authenticate, provider resolution, one page *)
(* request of get_paginated_results per step, one batch of                 *)
(* process_identities_batch per step, and the push.  The source API and    *)
(* the graph sink are the environment: each of their answers is drawn      *)
(* from a small set at the moment of the call.                             *)
(***************************************************************************)
EXTENDS Integers, Sequences, FiniteSets, TLC

(***************************************************************************)
(* Bounds of the model.                                                    *)
(***************************************************************************)
\* Longest page the modelled source serves.
MaxPageLen == 2
\* Largest X-Total-Count the modelled source advertises.
MaxTotal == 3
\* Longest record list the batch specification starts from.
MaxBatchInput == 3
\* Most API calls made through the session in the session-layer model.
MaxCalls == 2
\* Last tick of the clock in the session-layer model.
MaxClock == 2
\* Stand-in for BATCH_SIZE (1000 in the source, line 57): records per batch.
BATCH_SIZE == 2

(***************************************************************************)
(* Program constants.                                                      *)
(***************************************************************************)
MAX_LIMIT == 250
MAX_RETRIES == 3
\* MAX_LIMIT of the export script (tests/sailpoint_users.py, line 23).
EXPORT_MAX_LIMIT == 250
\* DEFAULT_RATE_LIMIT is 1.0 seconds; the clock of the model counts seconds.
DEFAULT_RATE_LIMIT == 1

(***************************************************************************)
(* Values.  A key that is absent from a JSON object (or whose value is     *)
(* None) is the sentinel Absent; "" is the empty string of the source.     *)
(***************************************************************************)
Absent == "<absent>"

\* Python truthiness of an optional string: None and "" are falsy.
Truthy(v) == v # Absent /\ v # ""

\* dict.get(key, default) for an optional string field: the default is used
\* only when the key is absent, not when the value is "".
GetOr(v, default) == IF v = Absent THEN default ELSE v

\* Exceptions are records; NoError is "nothing was raised".
NoError == [type |-> "none", details |-> <<>>]
Exc(t) == [type |-> t, details |-> <<>>]

\* An empty dict.
EmptyMap == <<>>

(***************************************************************************)
(* Raw records of the source API.  A raw identity is a JSON object; the    *)
(* fields the connector reads are id, name, email, status, created,        *)
(* lastLogin and groups.  groups is [null |-> TRUE] for a JSON null and    *)
(* otherwise carries the list of group objects, each with id and name.     *)
(***************************************************************************)
TsNone == [kind |-> "none", text |-> "", value |-> 0]
TsIso == [kind |-> "str", text |-> "2024-01-01T00:00:00Z", value |-> 0]
TsBad == [kind |-> "str", text |-> "yesterday", value |-> 0]
TsMs == [kind |-> "int", text |-> "", value |-> 86400000]

Group(id, name) == [id |-> id, name |-> name]
Groups(items) == [null |-> FALSE, items |-> items]
GroupsNull == [null |-> TRUE, items |-> <<>>]

GEng == Group("g1", "Engineering")
GOps == Group(Absent, "Ops")
GNameless == Group("g9", Absent)

Raw(id, name, email, created, groups) ==
    [id |-> id, name |-> name, email |-> email, status |-> Absent,
     created |-> created, lastLogin |-> TsNone, groups |-> groups]

RecAlice == Raw("u1", "alice", "a@x.com", TsIso, Groups(<<GEng>>))
RecBob == Raw("u2", "bob", Absent, TsNone, Groups(<<GEng, GOps>>))
RecCarol == Raw("u3", Absent, "", TsBad, Groups(<<GNameless, GOps>>))
RecNoId == Raw(Absent, "ghost", "g@x.com", TsMs, Groups(<<GEng>>))
RecEmptyId == Raw("", "blank", Absent, TsNone, Groups(<<>>))
RecNullGroups == Raw("u4", "dave", "d@x.com", TsNone, GroupsNull)

\* Record shapes the batch specification draws its input from.
RawRecords == {RecAlice, RecBob, RecCarol, RecNoId, RecEmptyId, RecNullGroups}

\* Record shapes the modelled source serves during a full run.
SourceRecords == {RecAlice, RecNoId}

(***************************************************************************)
(* format_timestamp (lines 211-233).  A string is validated with           *)
(* datetime.fromisoformat and returned unchanged; any other value is taken *)
(* as epoch milliseconds; every exception gives None.                      *)
(***************************************************************************)
\* The strings of the model that datetime.fromisoformat accepts once a
\* trailing Z is replaced by +00:00.
IsIsoString(text) == text \in {"2024-01-01T00:00:00Z"}

\* datetime.fromtimestamp(ts/1000, timezone.utc).isoformat() on the epoch
\* values of the model; Absent stands for the exception of an out-of-range
\* value.
IsoOfMillis(v) ==
    IF v = 86400000 THEN "1970-01-02T00:00:00+00:00" ELSE Absent

format_timestamp(ts) ==
    IF ts.kind = "none" \/ (ts.kind = "str" /\ ts.text = "")
          \/ (ts.kind = "int" /\ ts.value = 0)
    THEN Absent
    ELSE IF ts.kind = "str"
         THEN (IF IsIsoString(ts.text) THEN ts.text ELSE Absent)
         ELSE IsoOfMillis(ts.value)

\* from_api_response testing the id for absence only, not for emptiness.
from_api_response_absentOnly(data) ==
    IF data.id = Absent
    THEN [ok |-> FALSE, identity |-> data]
    ELSE [ok |-> TRUE,
          identity |-> [id |-> data.id,
                        name |-> GetOr(data.name, ""),
                        email |-> data.email,
                        status |-> data.status,
                        created |-> format_timestamp(data.created),
                        last_login |-> format_timestamp(data.lastLogin),
                        groups |-> data.groups]]

\* from_api_response requiring a name as well as an id.
from_api_response_nameRequired(data) ==
    IF ~Truthy(data.id) \/ ~Truthy(data.name)
    THEN [ok |-> FALSE, identity |-> data]
    ELSE [ok |-> TRUE,
          identity |-> [id |-> data.id,
                        name |-> GetOr(data.name, ""),
                        email |-> data.email,
                        status |-> data.status,
                        created |-> format_timestamp(data.created),
                        last_login |-> format_timestamp(data.lastLogin),
                        groups |-> data.groups]]

(***************************************************************************)
(* IdentityData.from_api_response (lines 134-159).  The result is          *)
(* [ok |-> FALSE] when ValueError("Identity must have an ID") is raised.   *)
(***************************************************************************)
from_api_response(data) ==
    IF ~Truthy(data.id)
    THEN [ok |-> FALSE, identity |-> data]
    ELSE [ok |-> TRUE,
          identity |-> [id |-> data.id,
                        name |-> GetOr(data.name, ""),
                        email |-> data.email,
                        status |-> data.status,
                        created |-> format_timestamp(data.created),
                        last_login |-> format_timestamp(data.lastLogin),
                        groups |-> data.groups]]

(***************************************************************************)
(* The graph: a CustomApplication of the oaaclient library, as built by    *)
(* _create_provider_data (lines 633-666).  local_users and local_groups    *)
(* are dicts keyed by the entity's identifier, which is its unique_id when *)
(* one is given and its name otherwise; adding an identifier that is       *)
(* already a key raises OAATemplateException.                              *)
(***************************************************************************)
create_provider_data ==
    [local_users |-> EmptyMap, local_groups |-> EmptyMap,
     custom_permissions |-> {"access"},
     user_properties |-> {"sailpoint_id", "email", "status"}]

Identifier(unique_id, name) == IF Truthy(unique_id) THEN unique_id ELSE name

Put(map, k, v) == (k :> v) @@ map

\* provider_data.add_local_user(name, identities, unique_id) at lines
\* 486-490, followed by the assignments of lines 493-502.  The library
\* raises when the identifier is already present.
NewUser(identity) ==
    [name |-> identity.name,
     identities |-> IF Truthy(identity.email) THEN <<identity.email>> ELSE <<>>,
     unique_id |-> identity.id,
     is_active |-> TRUE,
     created_at |-> identity.created,
     last_login_at |-> identity.last_login,
     properties |-> [k \in {"sailpoint_id"}
                          \cup (IF Truthy(identity.email) THEN {"email"} ELSE {})
                          \cup (IF Truthy(identity.status) THEN {"status"} ELSE {})
                     |-> CASE k = "sailpoint_id" -> identity.id
                           [] k = "email" -> identity.email
                           [] k = "status" -> identity.status],
     groups |-> <<>>,
     permissions |-> <<>>]

add_local_user(g, identity) ==
    LET key == Identifier(identity.id, identity.name) IN
    IF key \in DOMAIN g.local_users
    THEN [ok |-> FALSE, graph |-> g]
    ELSE [ok |-> TRUE,
          graph |-> [g EXCEPT !.local_users = Put(@, key, NewUser(identity))]]

\* provider_data.add_local_group(name, unique_id) at lines 509-512.  The
\* library raises when the identifier is already present.
add_local_group(g, name, unique_id) ==
    LET key == Identifier(unique_id, name) IN
    IF key \in DOMAIN g.local_groups
    THEN [ok |-> FALSE, graph |-> g]
    ELSE [ok |-> TRUE,
          graph |-> [g EXCEPT !.local_groups =
                         Put(@, key, [name |-> name, unique_id |-> unique_id])]]

InSeq(x, s) == \E i \in 1..Len(s) : s[i] = x

\* user.add_group(group_name) at line 513: the library appends the name to
\* the user's group list unless it is already there.
add_group(g, uid, group_name) ==
    [g EXCEPT !.local_users[uid].groups =
        IF InSeq(group_name, @) THEN @ ELSE Append(@, group_name)]

\* user.add_permission("access", apply_to_application=True) at lines 521-524.
add_permission(g, uid, permission) ==
    [g EXCEPT !.local_users[uid].permissions =
        IF InSeq(permission, @) THEN @ ELSE Append(@, permission)]

(***************************************************************************)
(* process_identities_batch (lines 462-542).                               *)
(***************************************************************************)
\* One iteration of the group loop, lines 505-517: a group without a name
\* is skipped; a group whose NAME is not a key of local_groups is created
\* under unique_id = group.get("id", group_name); then the user is added to
\* it by name.  An exception of either call is caught and logged as a
\* warning (lines 514-517).
ProcessGroup(g, uid, group) ==
    IF ~Truthy(group.name)
    THEN [graph |-> g, warnings |-> 0]
    ELSE IF group.name \notin DOMAIN g.local_groups
         THEN LET r == add_local_group(g, group.name, GetOr(group.id, group.name))
              IN  IF r.ok
                  THEN [graph |-> add_group(r.graph, uid, group.name), warnings |-> 0]
                  ELSE [graph |-> g, warnings |-> 1]
         ELSE [graph |-> add_group(g, uid, group.name), warnings |-> 0]

RECURSIVE ProcessGroups(_, _, _, _)
\* ProcessGroups leaving the loop at the first group that failed.
ProcessGroups_stopAtFailure(g, uid, items, i) ==
    IF i > Len(items)
    THEN [graph |-> g, warnings |-> 0]
    ELSE IF ProcessGroup(g, uid, items[i]).warnings > 0
    THEN ProcessGroup(g, uid, items[i])
    ELSE [graph |-> ProcessGroups(ProcessGroup(g, uid, items[i]).graph,
                                  uid, items, i + 1).graph,
          warnings |-> ProcessGroups(ProcessGroup(g, uid, items[i]).graph,
                                     uid, items, i + 1).warnings]

\* The group loop of lines 505-517 from item i on.
ProcessGroups(g, uid, items, i) ==
    IF i > Len(items)
    THEN [graph |-> g, warnings |-> 0]
    ELSE LET one == ProcessGroup(g, uid, items[i])
             rest == ProcessGroups(one.graph, uid, items, i + 1)
         IN  [graph |-> rest.graph, warnings |-> one.warnings + rest.warnings]

\* The permission step granting "access" whatever the email.
AddPermissions_always(g, uid, identity) ==
    add_permission(g, uid, "access")

\* The permission step, lines 519-524.
AddPermissions(g, uid, identity) ==
    IF Truthy(identity.email) THEN add_permission(g, uid, "access") ELSE g

\* The try block of the loop over the batch, lines 481-526, for one raw
\* record.  outcome is "processed" when line 526 is reached and otherwise
\* the type of the exception raised: ValueError by from_api_response,
\* OAATemplateException by add_local_user on an identifier the graph already
\* holds or by add_permission, TypeError by iterating a null groups value at
\* line 505.
\* Whether the permission step raises: user.add_permission is a library
\* call inside the try block, and it is taken to raise
\* OAATemplateException for a permission the application does not define.
\* The graph of _create_provider_data defines "access" (lines 661-664); a
\* graph handed in by another caller need not.
PermissionFails(g, identity) ==
    Truthy(identity.email) /\ "access" \notin g.custom_permissions

\* Lines 519-526 for a user whose groups are done.
GrantAccess(grouped, uid, identity) ==
    IF PermissionFails(grouped.graph, identity)
    THEN [graph |-> grouped.graph, outcome |-> "OAATemplateException",
          warnings |-> grouped.warnings]
    ELSE [graph |-> AddPermissions(grouped.graph, uid, identity),
          outcome |-> "processed", warnings |-> grouped.warnings]

\* AfterAddUser with the permission step ahead of the group loop.
AfterAddUser_permissionFirst(g, added, uid, identity) ==
    IF ~added.ok
    THEN [graph |-> g, outcome |-> "OAATemplateException", warnings |-> 0]
    ELSE IF PermissionFails(added.graph, identity)
    THEN [graph |-> added.graph, outcome |-> "OAATemplateException",
          warnings |-> 0]
    ELSE IF identity.groups.null
    THEN [graph |-> added.graph, outcome |-> "TypeError", warnings |-> 0]
    ELSE GrantAccess(ProcessGroups(added.graph, uid, identity.groups.items, 1),
                     uid, identity)

\* Lines 486-526 once add_local_user was called, added being what it gave:
\* the properties, then the group loop, then the permission step.
AfterAddUser(g, added, uid, identity) ==
    IF ~added.ok
    THEN [graph |-> g, outcome |-> "OAATemplateException", warnings |-> 0]
    ELSE IF identity.groups.null
    THEN [graph |-> added.graph, outcome |-> "TypeError", warnings |-> 0]
    ELSE GrantAccess(ProcessGroups(added.graph, uid, identity.groups.items, 1),
                     uid, identity)

\* Lines 485-526 for a record that from_api_response has transformed.
ProcessParsed(g, parsed) ==
    IF ~parsed.ok
    THEN [graph |-> g, outcome |-> "ValueError", warnings |-> 0]
    ELSE AfterAddUser(g, add_local_user(g, parsed.identity),
                      Identifier(parsed.identity.id, parsed.identity.name),
                      parsed.identity)

ProcessRecord(g, raw_identity) ==
    ProcessParsed(g, from_api_response(raw_identity))

\* ExceptClause without the except Exception clause of lines 531-533.
ExceptClause_valueErrorOnly(exc_type) ==
    IF exc_type = "ValueError" THEN "ValueError" ELSE "none"

\* The except clauses of lines 528-533: which clause handles an exception
\* type, "none" when it would leave the loop.  Every type raised in the try
\* block derives from Exception.
ExceptClause(exc_type) ==
    IF exc_type = "ValueError" THEN "ValueError"
    ELSE IF exc_type \in {"OAATemplateException", "TypeError"} THEN "Exception"
    ELSE "none"

\* The whole loop with its two counters.  outcomes keeps, per record of the
\* batch and in order, how the try block ended; error is an exception no
\* clause handled, which ends the loop.
RECURSIVE BatchLoop(_, _, _)
RECURSIVE AfterRecord(_, _, _, _)
BatchLoop(acc, batch, i) ==
    IF i > Len(batch)
    THEN acc
    ELSE AfterRecord(acc, batch, i, ProcessRecord(acc.graph, batch[i]))

\* AfterRecord with line 533 missing: the except Exception clause logs
\* and does not count.
AfterRecord_uncountedException(acc, batch, i, r) ==
    LET ok == r.outcome = "processed"
        handled == ok \/ ExceptClause(r.outcome) # "none"
        next == [graph |-> r.graph,
                 processed |-> acc.processed + (IF ok THEN 1 ELSE 0),
                 errors |-> acc.errors
                            + (IF ExceptClause(r.outcome) = "ValueError" THEN 1 ELSE 0),
                 warnings |-> acc.warnings + r.warnings,
                 outcomes |-> Append(acc.outcomes, r.outcome),
                 error |-> IF handled THEN NoError ELSE Exc(r.outcome)]
    IN  IF handled THEN BatchLoop(next, batch, i + 1) ELSE next

\* Lines 526-533 for the record at i, r being how its try block ended.
AfterRecord(acc, batch, i, r) ==
    LET ok == r.outcome = "processed"
        handled == ok \/ ExceptClause(r.outcome) # "none"
        next == [graph |-> r.graph,
                 processed |-> acc.processed + (IF ok THEN 1 ELSE 0),
                 errors |-> acc.errors + (IF ~ok /\ handled THEN 1 ELSE 0),
                 warnings |-> acc.warnings + r.warnings,
                 outcomes |-> Append(acc.outcomes, r.outcome),
                 error |-> IF handled THEN NoError ELSE Exc(r.outcome)]
    IN  IF handled THEN BatchLoop(next, batch, i + 1) ELSE next

\* process_identities_batch raising ValueError once a record failed, as its
\* docstring announces.
process_identities_batch_raiseOnErrors(graph, batch) ==
    LET r == BatchLoop([graph |-> graph, processed |-> 0, errors |-> 0,
                        warnings |-> 0, outcomes |-> <<>>, error |-> NoError],
                       batch, 1)
    IN  IF r.errors > 0 THEN [r EXCEPT !.error = Exc("ValueError")] ELSE r

process_identities_batch(graph, batch) ==
    BatchLoop([graph |-> graph, processed |-> 0, errors |-> 0,
               warnings |-> 0, outcomes |-> <<>>, error |-> NoError],
              batch, 1)

(***************************************************************************)
(* The WorkBoard connector (connectors/workboard/oaa_workboard.py).        *)
(* Timestamps of the user record are epoch seconds, as a number or as a    *)
(* string of digits; the number is kept as its decimal text.               *)
(***************************************************************************)
WTs(kind, text) == [kind |-> kind, text |-> text]

WTsNone == WTs("none", "")
WTsZero == WTs("int", "0")
WTsInt == WTs("int", "1700000000")
WTsStr == WTs("str", "1700000000")
WTsStrBad == WTs("str", "yesterday")
WTsYear == WTs("int", "1000000000000")
WTsHuge == WTs("int", "1000000000000000000")
WTsStrHuge == WTs("str", "99999999999999999999")

\* The strings of the model that int() accepts.
IsDecimal(text) ==
    text \in {"0", "1700000000", "1000000000000", "1000000000000000000",
              "99999999999999999999"}

\* datetime.fromtimestamp(n, timezone.utc).isoformat() on the numbers of
\* the model: a year past 9999 raises ValueError; a number outside the
\* platform's time_t range raises OverflowError or OSError, whichever the
\* platform gives.
FromTimestamp(text) ==
    CASE text = "0" ->
           {[raised |-> "none", value |-> "1970-01-01T00:00:00+00:00"]}
      [] text = "1700000000" ->
           {[raised |-> "none", value |-> "2023-11-14T22:13:20+00:00"]}
      [] text = "1000000000000" ->
           {[raised |-> "ValueError", value |-> Absent]}
      [] OTHER ->
           {[raised |-> "OverflowError", value |-> Absent],
            [raised |-> "OSError", value |-> Absent]}

\* format_timestamp of the WorkBoard connector (lines 145-158): the set of
\* ways the call can end.  None, "" and 0 give None; a string goes through
\* int(); ValueError and TypeError are caught and give None; any other
\* exception leaves the function.
wb_format_timestamp(ts) ==
    IF ts.kind = "none" \/ ts.text = "" \/ (ts.kind = "int" /\ ts.text = "0")
    THEN {[raised |-> "none", value |-> Absent]}
    ELSE LET rs == IF ts.kind = "str" /\ ~IsDecimal(ts.text)
                   THEN {[raised |-> "ValueError", value |-> Absent]}
                   ELSE FromTimestamp(ts.text)
         IN  {IF r.raised \in {"ValueError", "TypeError"}
              THEN [raised |-> "none", value |-> Absent] ELSE r : r \in rs}

\* A manager entry of the user record.
Manager(user_id, role) == [user_id |-> user_id, role |-> role]

\* The user object of the API response: the fields the connector reads.
WbRaw(user_id, email, create_at, last_visited_at, title, manager) ==
    [user_id |-> user_id, email |-> email, first_name |-> "Ada",
     last_name |-> "Lovelace", create_at |-> create_at,
     last_visited_at |-> last_visited_at, title |-> title, manager |-> manager]

WbTitles == {Absent, "Engineer", "IT Administrator"}

WbManagers ==
    {<<>>,
     <<Manager("m1", "Lead")>>,
     <<Manager("m1", "Team Admin")>>,
     <<Manager(Absent, "Admin"), Manager("m2", Absent)>>}

WbRawUsers ==
    {WbRaw(id, "ada@x.com", c, l, t, m) :
        id \in {"w1"}, c \in {WTsNone, WTsInt, WTsYear, WTsHuge},
        l \in {WTsStr, WTsStrBad, WTsStrHuge}, t \in WbTitles, m \in WbManagers}
    \cup {WbRaw(Absent, "", WTsNone, WTsNone, Absent, <<>>)}

NoWbUser == WbRaw(Absent, Absent, WTsNone, WTsNone, Absent, <<>>)

\* WorkBoardUser.full_name (lines 122-125) on the names of the model.
full_name(user) ==
    IF user.first_name = "Ada" /\ user.last_name = "Lovelace"
    THEN "Ada Lovelace" ELSE ""

\* '"admin" in text.lower()' on the strings of the model.
ContainsAdmin(text) == text \in {"IT Administrator", "Team Admin", "Admin", "admin"}

\* The manager the loop of lines 278-286 stops at: the first with a
\* user_id, the last one when none has a user_id.  The name manager stays
\* bound to it after the loop.
StoppedAt(managers) ==
    LET withId == {i \in 1..Len(managers) : Truthy(managers[i].user_id)}
    IN  IF withId = {} THEN Len(managers)
        ELSE CHOOSE i \in withId : \A i2 \in withId : i <= i2

\* wb_role looking at the title alone.
wb_role_titleOnly(user) ==
    IF Truthy(user.title) /\ ContainsAdmin(user.title) THEN "admin" ELSE "user"

\* Lines 296-304: the role of the permission.
wb_role(user) ==
    LET manager_role ==
            IF user.manager = <<>> THEN Absent
            ELSE GetOr(user.manager[StoppedAt(user.manager)].role, "")
        is_admin ==
            \/ Truthy(user.title) /\ ContainsAdmin(user.title)
            \/ Truthy(manager_role) /\ ContainsAdmin(manager_role)
    IN  IF is_admin THEN "admin" ELSE "user"

\* _create_provider_data of the WorkBoard connector (lines 382-438).
wb_create_provider_data ==
    [local_users |-> EmptyMap,
     custom_permissions |-> {"admin", "user", "viewer"}]

\* The properties process_user sets, lines 270-286.
wb_properties(user) ==
    LET managers == user.manager
        withId == {i \in 1..Len(managers) : Truthy(managers[i].user_id)}
        m == managers[StoppedAt(managers)]
        keys == {"workboard_id", "email"}
                \cup (IF Truthy(user.title) THEN {"title"} ELSE {})
                \cup (IF withId # {} THEN {"manager_id"} ELSE {})
                \cup (IF withId # {} /\ Truthy(m.role) THEN {"manager_role"} ELSE {})
    IN  [k \in keys |->
            CASE k = "workboard_id" -> user.user_id
              [] k = "email" -> user.email
              [] k = "title" -> user.title
              [] k = "manager_id" -> m.user_id
              [] k = "manager_role" -> m.role]

\* process_user (lines 255-311): the set of ways it can end for a user and
\* a graph.  Every exception is logged and re-raised.
wb_process_user(g, user) ==
    LET added(c, l, done) ==
            [g EXCEPT !.local_users =
                Put(@, user.user_id,
                    [name |-> full_name(user),
                     identities |-> IF Truthy(user.email)
                                    THEN <<user.email>> ELSE <<>>,
                     unique_id |-> user.user_id,
                     is_active |-> done,
                     created_at |-> c,
                     last_login_at |-> l,
                     properties |-> IF done THEN wb_properties(user) ELSE EmptyMap,
                     permissions |-> IF done THEN <<wb_role(user)>> ELSE <<>>])]
    IN
    IF user.user_id \in DOMAIN g.local_users
    THEN {[raised |-> "OAATemplateException", graph |-> g]}
    ELSE {IF c.raised # "none"
          THEN [raised |-> c.raised, graph |-> added(Absent, Absent, FALSE)]
          ELSE IF l.raised # "none"
          THEN [raised |-> l.raised, graph |-> added(c.value, Absent, FALSE)]
          ELSE [raised |-> "none", graph |-> added(c.value, l.value, TRUE)]
          : c \in wb_format_timestamp(user.create_at),
            l \in wb_format_timestamp(user.last_visited_at)}

\* No WorkBoard run.
WbIdle ==
    [pc |-> "idle", sink_provider |-> FALSE, user |-> NoWbUser,
     graph |-> wb_create_provider_data, calls |-> <<>>, pushed |-> <<>>,
     raised |-> "none"]

\* No request parameters built yet.
CalcIdle ==
    [fn |-> "none", requested |-> 0, default |-> FALSE, offset |-> 0,
     limit |-> 0]

\* The export script has not run.
ExportIdle ==
    [pc |-> "idle", source |-> <<>>, limit |-> 0, start |-> 0, offset |-> 0,
     asked |-> {}, current_batch |-> <<>>, all_accounts |-> <<>>]

(***************************************************************************)
(* State of one run of SailPointOAAProvider.sync.                          *)
(***************************************************************************)
VARIABLES
    pc,             \* position of sync: "start", "authenticated", "fetching",
                    \* "processing", "done" (returned) or "failed" (raised)
    session_token,  \* whether the session carries the Authorization header
    force,          \* the force argument of sync
    sink_provider,  \* whether the sink holds the provider
    calls,          \* the source and sink calls made so far, in order
    requests,       \* params of the page requests sent, in order
    served,         \* the page responses received, in order
    offset,         \* offset of get_paginated_results
    yielded,        \* items delivered by the generator so far
    identities,     \* the list fetch_identities returned to sync
    batch_start,    \* i of the batch loop of sync
    provider_data,  \* the CustomApplication under construction
    report,         \* per batch: the counters logged at lines 535-537
    log,            \* log lines of the failure and push paths
    push_result,    \* how push_application ended, NoPush before the call
    pushed,         \* payloads the sink accepted
    raised,         \* the exception that left sync, NoError if none
    http,           \* the session layer: the API call in progress
    earlier,        \* the sync calls this provider object completed before
    wb,             \* one run of the WorkBoard connector's sync
    calc,           \* the last request parameters built, and from what
    export          \* the run of the export script (tests/sailpoint_users.py)

vars == <<pc, session_token, force, sink_provider, calls, requests, served,
          offset, yielded, identities, batch_start, provider_data, report,
          log, push_result, pushed, raised, http, earlier, wb, calc, export>>

\* The variables of one run of SailPointOAAProvider.sync.
syncVars == <<pc, session_token, force, sink_provider, calls, requests, served,
              offset, yielded, identities, batch_start, provider_data, report,
              log, push_result, pushed, raised>>

Min(a, b) == IF a <= b THEN a ELSE b

BoundedSeq(S, n) == UNION {[1..k -> S] : k \in 0..n}

LogLine(level, msg, arg, n) == [level |-> level, msg |-> msg, arg |-> arg, n |-> n]

\* The except clause of sync, lines 595-598: log and re-raise.
SyncFails(e, lines) ==
    /\ pc' = "failed"
    /\ raised' = e
    /\ log' = log \o lines \o <<LogLine("error", "Sync failed", e.type, 0)>>

NoPush == [kind |-> "none", warnings |-> <<>>, error |-> NoError]

\* The session layer before any API call: no call in progress, the clock
\* at 0.  _last_request_time is set to 0 at line 257.
HttpIdle ==
    [phase |-> "idle", call |-> "none", body_calls |-> 0, retries_left |-> 0,
     outcomes |-> <<>>, status_code |-> 0, error |-> "none",
     clock |-> 0, last_request_time |-> 0, call_times |-> <<>>]

Init ==
    /\ http = HttpIdle
    /\ earlier = <<>>
    /\ wb = WbIdle
    /\ calc = CalcIdle
    /\ export = ExportIdle
    /\ pc = "start"
    /\ session_token = FALSE
    /\ push_result = NoPush
    /\ force \in BOOLEAN
    /\ sink_provider \in BOOLEAN
    /\ calls = <<>>
    /\ requests = <<>>
    /\ served = <<>>
    /\ offset = 0
    /\ yielded = <<>>
    /\ identities = <<>>
    /\ batch_start = 0
    /\ provider_data = create_provider_data
    /\ report = <<>>
    /\ log = <<>>
    /\ pushed = <<>>
    /\ raised = NoError

(***************************************************************************)
(* authenticate (lines 290-343).  The token request ends in one of:        *)
(*   ok            2xx with a JSON body holding access_token               *)
(*   http_error    raise_for_status raises HTTPError                       *)
(*   network_error session.post raises a RequestException                  *)
(*   bad_json      response.json() raises requests' JSONDecodeError        *)
(*   no_token      the JSON body has no access_token key                   *)
(* Every RequestException (requests' JSONDecodeError is one) is turned     *)
(* into APIError at lines 338-343, which the retry decorator               *)
(* (retry_if_exception_type(RequestException)) does not retry; a KeyError  *)
(* is not caught.                                                          *)
(***************************************************************************)
AuthOutcomes == {"ok", "http_error", "network_error", "bad_json", "no_token"}

\* authenticate logging a failure instead of raising it.
authenticate_swallow(outcome) ==
    [error |-> NoError, token |-> outcome = "ok"]

authenticate(outcome) ==
    CASE outcome = "ok" -> [error |-> NoError, token |-> TRUE]
      [] outcome = "no_token" -> [error |-> Exc("KeyError"), token |-> FALSE]
      [] OTHER -> [error |-> Exc("APIError"), token |-> FALSE]

\* sync, lines 556-557.
Authenticate ==
    /\ pc = "start"
    /\ \E outcome \in AuthOutcomes :
         LET r == authenticate(outcome) IN
         /\ calls' = Append(calls, "token_request")
         /\ session_token' = r.token
         /\ IF r.error = NoError
            THEN /\ pc' = "authenticated"
                 /\ UNCHANGED <<raised, log>>
            ELSE SyncFails(r.error, <<>>)
    /\ UNCHANGED <<force, sink_provider, requests, served, offset, yielded,
                   identities, batch_start, provider_data, report,
                   push_result, pushed>>
    /\ UNCHANGED <<http, earlier, wb, calc, export>>

\* sync, lines 562-564: with force set, self.cleanup_provider is looked up;
\* the class defines no such method, so AttributeError is raised.
CleanupProvider ==
    /\ pc = "authenticated"
    /\ force
    /\ SyncFails(Exc("AttributeError"), <<>>)
    /\ UNCHANGED <<session_token, force, sink_provider, calls, requests,
                   served, offset, yielded, identities, batch_start,
                   provider_data, report, push_result, pushed>>
    /\ UNCHANGED <<http, earlier, wb, calc, export>>

(***************************************************************************)
(* _get_or_create_provider (lines 600-631) followed by                     *)
(* _create_provider_data (line 570).  sink answers: get_provider and       *)
(* create_provider succeed or raise OAAClientError; update_provider_icon   *)
(* succeeds or raises, and its exception is swallowed (lines 626-627).     *)
(***************************************************************************)
\* The sink calls _get_or_create_provider makes, given whether the provider
\* exists and how each call ends; error is what it raises.
\* _get_or_create_provider letting a failure of update_provider_icon out.
get_or_create_provider_iconFatal(exists, get_ok, create_ok, icon_ok) ==
    IF ~get_ok
    THEN [calls |-> <<"get_provider">>, error |-> Exc("OAAClientError"),
          provider |-> exists, warnings |-> <<>>]
    ELSE IF exists
    THEN [calls |-> <<"get_provider">>, error |-> NoError,
          provider |-> TRUE, warnings |-> <<>>]
    ELSE IF ~create_ok
    THEN [calls |-> <<"get_provider", "create_provider">>,
          error |-> Exc("OAAClientError"), provider |-> FALSE, warnings |-> <<>>]
    ELSE [calls |-> <<"get_provider", "create_provider", "update_provider_icon">>,
          error |-> IF icon_ok THEN NoError ELSE Exc("OAAClientError"),
          provider |-> TRUE, warnings |-> <<>>]

get_or_create_provider(exists, get_ok, create_ok, icon_ok) ==
    IF ~get_ok
    THEN [calls |-> <<"get_provider">>, error |-> Exc("OAAClientError"),
          provider |-> exists, warnings |-> <<>>]
    ELSE IF exists
    THEN [calls |-> <<"get_provider">>, error |-> NoError,
          provider |-> TRUE, warnings |-> <<>>]
    ELSE IF ~create_ok
    THEN [calls |-> <<"get_provider", "create_provider">>,
          error |-> Exc("OAAClientError"), provider |-> FALSE, warnings |-> <<>>]
    ELSE [calls |-> <<"get_provider", "create_provider", "update_provider_icon">>,
          error |-> NoError, provider |-> TRUE,
          warnings |-> IF icon_ok THEN <<>>
                       ELSE <<LogLine("warning", "Failed to update provider icon", "", 0)>>]

\* sync, lines 566-570.
GetOrCreateProvider ==
    /\ pc = "authenticated"
    /\ ~force
    /\ \E get_ok \in BOOLEAN, create_ok \in BOOLEAN, icon_ok \in BOOLEAN :
         LET r == get_or_create_provider(sink_provider, get_ok, create_ok, icon_ok) IN
         /\ calls' = calls \o r.calls
         /\ sink_provider' = r.provider
         /\ IF r.error = NoError
            THEN /\ pc' = "fetching"
                 /\ provider_data' = create_provider_data
                 /\ log' = log \o r.warnings
                 /\ UNCHANGED raised
            ELSE /\ SyncFails(r.error, r.warnings)
                 /\ UNCHANGED provider_data
    /\ UNCHANGED <<session_token, force, requests, served, offset, yielded,
                   identities, batch_start, report, push_result, pushed>>
    /\ UNCHANGED <<http, earlier, wb, calc, export>>

(***************************************************************************)
(* get_paginated_results (lines 379-436) driven by fetch_identities        *)
(* (lines 438-460).  One step is one iteration of the while loop: the      *)
(* request, the yields of the page and the update of offset.               *)
(***************************************************************************)
\* PageParams passing the requested limit on as it is.
PageParams_noClamp(query_limit, off) ==
    [limit |-> query_limit, offset |-> off]

\* params of a page request, lines 397-401.
PageParams(query_limit, off) ==
    [limit |-> Min(query_limit, MAX_LIMIT), offset |-> off]

\* The page responses of the modelled source: a JSON list of records and
\* the X-Total-Count header, read as 0 when the header is absent (line 415).
PageResponses ==
    [items : BoundedSeq(SourceRecords, MaxPageLen), total : 0..MaxTotal]

\* PageStep with the comparison of line 431 strict.
PageStep_strict(off, response) ==
    IF response.items = <<>>
    THEN [yield |-> <<>>, offset |-> off, done |-> TRUE]
    ELSE [yield |-> response.items,
          offset |-> off + Len(response.items),
          done |-> off + Len(response.items) > response.total]

\* PageStep without the empty-page break of lines 417-418.
PageStep_noEmptyBreak(off, response) ==
    [yield |-> response.items,
     offset |-> off + Len(response.items),
     done |-> off + Len(response.items) >= response.total]

\* PageStep advancing the offset by the requested limit.
PageStep_byLimit(off, response) ==
    IF response.items = <<>>
    THEN [yield |-> <<>>, offset |-> off, done |-> TRUE]
    ELSE [yield |-> response.items,
          offset |-> off + MAX_LIMIT,
          done |-> off + MAX_LIMIT >= response.total]

\* PageStep without the break of lines 431-432 on reaching the total.
PageStep_noTotalBreak(off, response) ==
    IF response.items = <<>>
    THEN [yield |-> <<>>, offset |-> off, done |-> TRUE]
    ELSE [yield |-> response.items,
          offset |-> off + Len(response.items),
          done |-> FALSE]

\* PageStep reading a total of 0 as "unknown": only an empty page ends the
\* loop then.
PageStep_zeroTotalUnknown(off, response) ==
    IF response.items = <<>>
    THEN [yield |-> <<>>, offset |-> off, done |-> TRUE]
    ELSE [yield |-> response.items,
          offset |-> off + Len(response.items),
          done |-> response.total > 0
                   /\ off + Len(response.items) >= response.total]

\* PageStep testing the offset of the request, not the advanced one.
PageStep_staleOffset(off, response) ==
    IF response.items = <<>>
    THEN [yield |-> <<>>, offset |-> off, done |-> TRUE]
    ELSE [yield |-> response.items,
          offset |-> off + Len(response.items),
          done |-> off >= response.total]

\* Lines 413-432 on one response: what is yielded, the new offset and
\* whether the loop breaks.
PageStep(off, response) ==
    IF response.items = <<>>
    THEN [yield |-> <<>>, offset |-> off, done |-> TRUE]
    ELSE [yield |-> response.items,
          offset |-> off + Len(response.items),
          done |-> off + Len(response.items) >= response.total]

\* A page request that succeeds.
FetchPage ==
    /\ pc = "fetching"
    /\ \E response \in PageResponses :
         LET step == PageStep(offset, response) IN
         /\ calls' = Append(calls, "request")
         /\ requests' = Append(requests, PageParams(MAX_LIMIT, offset))
         /\ served' = Append(served, response)
         /\ yielded' = yielded \o step.yield
         /\ offset' = step.offset
         /\ IF step.done
            THEN /\ pc' = "processing"
                 /\ identities' = yielded'
            ELSE /\ pc' = "fetching"
                 /\ UNCHANGED identities
    /\ UNCHANGED <<session_token, force, sink_provider, batch_start,
                   provider_data, report, log, push_result, pushed, raised>>
    /\ UNCHANGED <<http, earlier, wb, calc, export>>

\* What a failing page request raises out of get_paginated_results:
\* _make_request turns a RequestException into APIError (lines 372-377),
\* which lines 434-436 and 458-460 log and re-raise; a body that is not
\* JSON makes response.json() raise at line 414, which neither handler
\* catches.
FetchFailures == {"api_error", "bad_json"}

\* fetch_failure logging the offset the fetch started from.
fetch_failure_startOffset(kind, off) ==
    IF kind = "api_error"
    THEN [error |-> Exc("APIError"),
          lines |-> <<LogLine("error", "Failed to fetch page at offset", "", 0),
                      LogLine("error", "Failed to fetch identities", "", 0)>>]
    ELSE [error |-> Exc("JSONDecodeError"), lines |-> <<>>]

fetch_failure(kind, off) ==
    IF kind = "api_error"
    THEN [error |-> Exc("APIError"),
          lines |-> <<LogLine("error", "Failed to fetch page at offset", "", off),
                      LogLine("error", "Failed to fetch identities", "", 0)>>]
    ELSE [error |-> Exc("JSONDecodeError"), lines |-> <<>>]

\* FetchPageFails with fetch_identities returning what it has instead of
\* re-raising.
FetchPageFails_partial ==
    /\ pc = "fetching"
    /\ \E kind \in FetchFailures :
         /\ calls' = Append(calls, "request")
         /\ requests' = Append(requests, PageParams(MAX_LIMIT, offset))
         /\ pc' = "processing"
         /\ identities' = yielded
    /\ UNCHANGED <<session_token, force, sink_provider, served, offset,
                   yielded, batch_start, provider_data, report, log,
                   push_result, pushed, raised>>
    /\ UNCHANGED <<http, earlier, wb, calc, export>>

\* A page request that fails.
FetchPageFails ==
    /\ pc = "fetching"
    /\ \E kind \in FetchFailures :
         LET f == fetch_failure(kind, offset) IN
         /\ calls' = Append(calls, "request")
         /\ requests' = Append(requests, PageParams(MAX_LIMIT, offset))
         /\ SyncFails(f.error, f.lines)
    /\ UNCHANGED <<session_token, force, sink_provider, served, offset,
                   yielded, identities, batch_start, provider_data, report,
                   push_result, pushed>>
    /\ UNCHANGED <<http, earlier, wb, calc, export>>

(***************************************************************************)
(* The batch loop of sync, lines 582-588.                                  *)
(***************************************************************************)
\* Batch taking one record more than BATCH_SIZE.
Batch_overlap(all, i) == SubSeq(all, i + 1, Min(i + BATCH_SIZE + 1, Len(all)))

\* identities[i:i + BATCH_SIZE]
Batch(all, i) == SubSeq(all, i + 1, Min(i + BATCH_SIZE, Len(all)))

\* (total_identities + BATCH_SIZE - 1) // BATCH_SIZE, line 586.
BatchCount(n) == (n + BATCH_SIZE - 1) \div BATCH_SIZE

\* Lines 583-588 once process_identities_batch returned or raised: r is
\* what it gave for the batch.
BatchDone(batch, r) ==
    /\ provider_data' = r.graph
    /\ report' = Append(report, [batch |-> batch,
                                 users_before |-> DOMAIN provider_data.local_users,
                                 processed |-> r.processed,
                                 errors |-> r.errors,
                                 warnings |-> r.warnings,
                                 outcomes |-> r.outcomes])
    /\ IF r.error = NoError
       THEN UNCHANGED <<pc, log, raised>>
       ELSE SyncFails(r.error, <<>>)

\* ProcessBatch walking the batch in either direction.
ProcessBatch_unordered ==
    /\ pc = "processing"
    /\ batch_start < Len(identities)
    /\ \E walk \in {Batch(identities, batch_start),
                    [i \in 1..Len(Batch(identities, batch_start)) |->
                       Batch(identities, batch_start)[
                         Len(Batch(identities, batch_start)) + 1 - i]]} :
         BatchDone(Batch(identities, batch_start),
                   process_identities_batch(provider_data, walk))
    /\ batch_start' = batch_start + BATCH_SIZE
    /\ UNCHANGED <<session_token, force, sink_provider, calls, requests,
                   served, offset, yielded, identities, push_result, pushed>>
    /\ UNCHANGED <<http, earlier, wb, calc, export>>

\* One iteration of the batch loop of sync, lines 582-588.
ProcessBatch ==
    /\ pc = "processing"
    /\ batch_start < Len(identities)
    /\ BatchDone(Batch(identities, batch_start),
                 process_identities_batch(provider_data,
                                          Batch(identities, batch_start)))
    /\ batch_start' = batch_start + BATCH_SIZE
    /\ UNCHANGED <<session_token, force, sink_provider, calls, requests,
                   served, offset, yielded, identities, push_result, pushed>>
    /\ UNCHANGED <<http, earlier, wb, calc, export>>

(***************************************************************************)
(* _push_to_oaa (lines 668-706).  push_application returns a response      *)
(* with or without warnings, raises OAAClientError with a details list, or *)
(* raises another exception.                                               *)
(***************************************************************************)
PushWarnings == {<<>>, <<"w1">>, <<"w1", "w2">>}
PushDetails == {<<>>, <<"bad property type">>, <<"d1", "d2">>}

PushResults ==
    [kind : {"response"}, warnings : PushWarnings, error : {NoError}]
    \cup [kind : {"raise"}, warnings : {<<>>},
          error : [type : {"OAAClientError"}, details : PushDetails]
                  \cup {Exc("ConnectionError")}]

RECURSIVE LinesOf(_, _, _, _)
LinesOf(level, msg, args, i) ==
    IF i > Len(args) THEN <<>>
    ELSE <<LogLine(level, msg, args[i], 0)>> \o LinesOf(level, msg, args, i + 1)

\* push_to_oaa raising a new error in place of the OAAClientError.
push_to_oaa_wrap(result) ==
    IF result.kind = "response"
    THEN [lines |-> <<LogLine("info", "Pushing data to OAA", "", 0)>>
                    \o LinesOf("warning", "Push warning", result.warnings, 1)
                    \o <<LogLine("info", "Sync completed successfully", "", 0)>>,
          error |-> NoError]
    ELSE [lines |-> <<LogLine("info", "Pushing data to OAA", "", 0),
                      LogLine("error", "Error pushing to OAA", "", 0)>>,
          error |-> Exc("APIError")]

\* What _push_to_oaa logs and raises for a result of push_application.
push_to_oaa(result) ==
    IF result.kind = "response"
    THEN [lines |-> <<LogLine("info", "Pushing data to OAA", "", 0)>>
                    \o LinesOf("warning", "Push warning", result.warnings, 1)
                    \o <<LogLine("info", "Sync completed successfully", "", 0)>>,
          error |-> NoError]
    ELSE IF result.error.type = "OAAClientError"
    THEN [lines |-> <<LogLine("info", "Pushing data to OAA", "", 0),
                      LogLine("error", "Error pushing to OAA", "", 0)>>
                    \o LinesOf("error", "Detail", result.error.details, 1),
          error |-> result.error]
    ELSE [lines |-> <<LogLine("info", "Pushing data to OAA", "", 0)>>,
          error |-> result.error]

\* Push without waiting for the batch loop to end.
Push_early ==
    /\ pc = "processing"
    /\ \E result \in PushResults :
         LET r == push_to_oaa(result) IN
         /\ calls' = Append(calls, "push_application")
         /\ push_result' = result
         /\ pushed' = IF result.kind = "response"
                      THEN Append(pushed, provider_data) ELSE pushed
         /\ IF r.error = NoError
            THEN /\ pc' = "done"
                 /\ log' = log \o r.lines
                 /\ UNCHANGED raised
            ELSE SyncFails(r.error, r.lines)
    /\ UNCHANGED <<session_token, force, sink_provider, requests, served,
                   offset, yielded, identities, batch_start, provider_data,
                   report>>
    /\ UNCHANGED <<http, earlier, wb, calc, export>>

\* sync, lines 590-593.
Push ==
    /\ pc = "processing"
    /\ batch_start >= Len(identities)
    /\ \E result \in PushResults :
         LET r == push_to_oaa(result) IN
         /\ calls' = Append(calls, "push_application")
         /\ push_result' = result
         /\ pushed' = IF result.kind = "response"
                      THEN Append(pushed, provider_data) ELSE pushed
         /\ IF r.error = NoError
            THEN /\ pc' = "done"
                 /\ log' = log \o r.lines
                 /\ UNCHANGED raised
            ELSE SyncFails(r.error, r.lines)
    /\ UNCHANGED <<session_token, force, sink_provider, requests, served,
                   offset, yielded, identities, batch_start, provider_data,
                   report>>
    /\ UNCHANGED <<http, earlier, wb, calc, export>>

Next ==
    \/ Authenticate
    \/ CleanupProvider
    \/ GetOrCreateProvider
    \/ FetchPage
    \/ FetchPageFails
    \/ ProcessBatch
    \/ Push

Spec == Init /\ [][Next]_vars

(***************************************************************************)
(* The batch stage on its own: the run has authenticated, found the        *)
(* provider and fetched, in one page, a list of records drawn from         *)
(* RawRecords; what remains is the batch loop and the push.                *)
(***************************************************************************)
\* The run with a source that answers or fails every page request (each
\* request is bounded by the timeout of line 366): the loop of
\* get_paginated_results takes its next step.
SpecLive == Init /\ [][Next]_vars /\ WF_vars(FetchPage \/ FetchPageFails)

InitBatch ==
    /\ http = HttpIdle
    /\ earlier = <<>>
    /\ wb = WbIdle
    /\ calc = CalcIdle
    /\ export = ExportIdle
    /\ \E fetched \in BoundedSeq(RawRecords, MaxBatchInput) :
         /\ identities = fetched
         /\ yielded = fetched
         /\ served = <<[items |-> fetched, total |-> Len(fetched)]>>
         /\ offset = Len(fetched)
    /\ pc = "processing"
    /\ session_token = TRUE
    /\ force = FALSE
    /\ sink_provider = TRUE
    /\ calls = <<"token_request", "get_provider", "request">>
    /\ requests = <<PageParams(MAX_LIMIT, 0)>>
    /\ batch_start = 0
    /\ provider_data = create_provider_data
    /\ report = <<>>
    /\ log = <<>>
    /\ push_result = NoPush
    /\ pushed = <<>>
    /\ raised = NoError

NextBatch ==
    \/ ProcessBatch
    \/ Push

SpecBatch == InitBatch /\ [][NextBatch]_vars

(***************************************************************************)
(* process_identities_batch on a graph handed in by the caller: the batch  *)
(* loop as above, started on a graph that defines the "access" permission  *)
(* or on one that does not.                                                *)
(***************************************************************************)
CallerGraphs ==
    {create_provider_data, [create_provider_data EXCEPT !.custom_permissions = {}]}

InitCaller ==
    /\ http = HttpIdle
    /\ earlier = <<>>
    /\ wb = WbIdle
    /\ calc = CalcIdle
    /\ export = ExportIdle
    /\ \E fetched \in BoundedSeq(RawRecords, MaxBatchInput) :
         /\ identities = fetched
         /\ yielded = fetched
         /\ served = <<[items |-> fetched, total |-> Len(fetched)]>>
         /\ offset = Len(fetched)
    /\ pc = "processing"
    /\ session_token = TRUE
    /\ force = FALSE
    /\ sink_provider = TRUE
    /\ calls = <<"token_request", "get_provider", "request">>
    /\ requests = <<PageParams(MAX_LIMIT, 0)>>
    /\ batch_start = 0
    /\ provider_data \in CallerGraphs
    /\ report = <<>>
    /\ log = <<>>
    /\ push_result = NoPush
    /\ pushed = <<>>
    /\ raised = NoError

SpecCaller == InitCaller /\ [][NextBatch]_vars

(***************************************************************************)
(* sync called twice on the same provider object.  The first call is a     *)
(* run of the batch specification; the second is entered by SyncAgain,     *)
(* which stands for lines 557-574 of the second call having succeeded:     *)
(* authenticate, the provider lookup, _create_provider_data and            *)
(* fetch_identities returning a list.  earlier keeps the first call's      *)
(* fetched list and the graph it built.                                    *)
(***************************************************************************)
TwiceRecords == {RecAlice, RecBob, RecNoId}

InitTwice ==
    /\ InitBatch
    /\ \A j \in 1..Len(identities) : identities[j] \in TwiceRecords

\* SyncAgain with the graph kept from the call before.
SyncAgain_keepGraph ==
    /\ pc \in {"done", "failed"}
    /\ earlier = <<>>
    /\ earlier' = <<[identities |-> identities, graph |-> provider_data,
                     completed |-> pc = "done"]>>
    /\ \E fetched \in BoundedSeq(TwiceRecords, MaxBatchInput) :
         /\ identities' = fetched
         /\ yielded' = fetched
         /\ served' = <<[items |-> fetched, total |-> Len(fetched)]>>
         /\ offset' = Len(fetched)
    /\ pc' = "processing"
    /\ session_token' = TRUE
    /\ calls' = <<"token_request", "get_provider", "request">>
    /\ requests' = <<PageParams(MAX_LIMIT, 0)>>
    /\ batch_start' = 0
    /\ provider_data' = provider_data
    /\ report' = <<>>
    /\ log' = <<>>
    /\ push_result' = NoPush
    /\ raised' = NoError
    /\ UNCHANGED <<force, sink_provider, pushed, http, wb, calc, export>>

\* The second call of sync, up to the batch loop.  provider_data is the
\* local variable assigned at line 570: a new CustomApplication.
SyncAgain ==
    /\ pc \in {"done", "failed"}
    /\ earlier = <<>>
    /\ earlier' = <<[identities |-> identities, graph |-> provider_data,
                     completed |-> pc = "done"]>>
    /\ \E fetched \in BoundedSeq(TwiceRecords, MaxBatchInput) :
         /\ identities' = fetched
         /\ yielded' = fetched
         /\ served' = <<[items |-> fetched, total |-> Len(fetched)]>>
         /\ offset' = Len(fetched)
    /\ pc' = "processing"
    /\ session_token' = TRUE
    /\ calls' = <<"token_request", "get_provider", "request">>
    /\ requests' = <<PageParams(MAX_LIMIT, 0)>>
    /\ batch_start' = 0
    /\ provider_data' = create_provider_data
    /\ report' = <<>>
    /\ log' = <<>>
    /\ push_result' = NoPush
    /\ raised' = NoError
    /\ UNCHANGED <<force, sink_provider, pushed, http, wb, calc, export>>

NextTwice ==
    \/ ProcessBatch
    \/ Push
    \/ SyncAgain

SpecTwice == InitTwice /\ [][NextTwice]_vars

(***************************************************************************)
(* The session layer: _setup_session (lines 265-288) mounts an HTTPAdapter *)
(* whose urllib3 Retry has total = MAX_RETRIES, the status_forcelist of    *)
(* line 279 and allowed_methods GET and POST; authenticate (lines 290-343) *)
(* and _make_request (lines 345-377) send one request through it.          *)
(* One step is one HTTP attempt and what the adapter does with its         *)
(* outcome.  The variables of sync stay as they are.                       *)
(***************************************************************************)
status_forcelist_with404 == {404, 429, 500, 502, 503, 504}

status_forcelist == {429, 500, 502, 503, 504}

allowed_methods == {"GET", "POST"}

\* Retry.RETRY_AFTER_STATUS_CODES: with respect_retry_after_header left at
\* its default, a response of one of these statuses that carries a
\* Retry-After header is retried while total is not 0.
RETRY_AFTER_STATUS_CODES == {413, 429, 503}

\* The outcome of one HTTP attempt: a network-level exception, or a
\* response with a status, with or without a Retry-After header.
Network == [kind |-> "network", status |-> 0, retry_after |-> FALSE]
Status(code, retry_after) ==
    [kind |-> "status", status |-> code, retry_after |-> retry_after]

AttemptOutcomes ==
    {Network, Status(200, FALSE), Status(404, FALSE), Status(404, TRUE),
     Status(413, FALSE), Status(413, TRUE), Status(429, FALSE),
     Status(500, FALSE)}

\* The API calls and the method each sends: session.post at line 321,
\* _make_request('GET', ...) at line 411.
ApiCalls == {"authenticate", "_make_request"}
MethodOf(call) == IF call = "authenticate" THEN "POST" ELSE "GET"

\* Retry.is_retry for a response, given the retries left.
is_retry(total, method, outcome) ==
    /\ outcome.kind = "status"
    /\ method \in allowed_methods
    /\ \/ outcome.status \in status_forcelist
       \/ /\ total # 0
          /\ outcome.retry_after
          /\ outcome.status \in RETRY_AFTER_STATUS_CODES

\* SessionStep giving up one retry late.
SessionStep_lateExhaust(total, method, outcome) ==
    IF outcome.kind = "network" \/ is_retry(total, method, outcome)
    THEN IF total - 1 < -1
         THEN [do |-> "raise", total |-> total - 1, status_code |-> 0]
         ELSE [do |-> "retry", total |-> total - 1, status_code |-> 0]
    ELSE IF outcome.status >= 400
         THEN [do |-> "raise", total |-> total, status_code |-> outcome.status]
         ELSE [do |-> "return", total |-> total, status_code |-> outcome.status]

\* What the session does with the outcome of an attempt.  A network error
\* or a retryable response goes through Retry.increment, which takes one
\* from total and raises MaxRetryError once total is below 0; requests
\* turns that into a RequestException without a response.  Any other
\* response is returned, and raise_for_status (lines 328, 369) raises
\* HTTPError for a status of 400 or more.  In both callers the
\* RequestException becomes APIError with the response's status code, None
\* (0 here) when there is no response (lines 338-343, 372-377).
SessionStep(total, method, outcome) ==
    IF outcome.kind = "network" \/ is_retry(total, method, outcome)
    THEN IF total - 1 < 0
         THEN [do |-> "raise", total |-> total - 1, status_code |-> 0]
         ELSE [do |-> "retry", total |-> total - 1, status_code |-> 0]
    ELSE IF outcome.status >= 400
         THEN [do |-> "raise", total |-> total, status_code |-> outcome.status]
         ELSE [do |-> "return", total |-> total, status_code |-> outcome.status]

\* The exception types the retry decorator of authenticate re-runs the
\* function for: retry_if_exception_type(RequestException), line 295.
TenacityRetries(exc_type) == exc_type = "RequestException"

\* The type of the exception that leaves the body of either caller: the
\* except clause has replaced the RequestException by APIError.
BodyRaises == "APIError"

\* authenticate or _make_request is called.  Nothing in _make_request reads
\* rate_limit or _last_request_time: the call starts at once.
HttpStartCall ==
    /\ http.phase \in {"idle", "returned", "raised"}
    /\ Len(http.call_times) < MaxCalls
    /\ \E call \in ApiCalls :
         http' = [http EXCEPT !.phase = "sending",
                              !.call = call,
                              !.body_calls = 1,
                              !.retries_left = MAX_RETRIES,
                              !.outcomes = <<>>,
                              !.status_code = 0,
                              !.error = "none",
                              !.call_times = Append(@, [call |-> call, at |-> http.clock])]
    /\ UNCHANGED <<pc, session_token, force, sink_provider, calls, requests,
                   served, offset, yielded, identities, batch_start,
                   provider_data, report, log, push_result, pushed, raised>>
    /\ UNCHANGED <<earlier, wb, calc, export>>

\* One HTTP attempt of the call in progress.
HttpAttempt ==
    /\ http.phase = "sending"
    /\ \E outcome \in AttemptOutcomes :
         LET step == SessionStep(http.retries_left, MethodOf(http.call), outcome)
             rerun == /\ step.do = "raise"
                      /\ http.call = "authenticate"
                      /\ TenacityRetries(BodyRaises)
                      /\ http.body_calls < MAX_RETRIES
         IN  http' = [http EXCEPT
                 !.outcomes = Append(@, outcome),
                 !.retries_left = IF rerun THEN MAX_RETRIES ELSE step.total,
                 !.body_calls = IF rerun THEN @ + 1 ELSE @,
                 !.status_code = step.status_code,
                 !.error = IF step.do = "raise" /\ ~rerun THEN BodyRaises ELSE "none",
                 !.phase = CASE step.do = "retry" \/ rerun -> "sending"
                             [] step.do = "return" -> "returned"
                             [] OTHER -> "raised"]
    /\ UNCHANGED <<pc, session_token, force, sink_provider, calls, requests,
                   served, offset, yielded, identities, batch_start,
                   provider_data, report, log, push_result, pushed, raised>>
    /\ UNCHANGED <<earlier, wb, calc, export>>

\* Time passes.
HttpTick ==
    /\ http.clock < MaxClock
    /\ http' = [http EXCEPT !.clock = @ + 1]
    /\ UNCHANGED <<pc, session_token, force, sink_provider, calls, requests,
                   served, offset, yielded, identities, batch_start,
                   provider_data, report, log, push_result, pushed, raised>>
    /\ UNCHANGED <<earlier, wb, calc, export>>

InitHttp ==
    /\ Init
    /\ force = FALSE
    /\ sink_provider = TRUE

NextHttp ==
    \/ HttpStartCall
    \/ HttpAttempt
    \/ HttpTick

SpecHttp == InitHttp /\ [][NextHttp]_vars

(***************************************************************************)
(* One run of WorkBoardOAAProvider.sync (lines 313-338): fetch_user,       *)
(* process_user and _push_to_oaa.  The class body defines _push_to_oaa     *)
(* twice (lines 340-380 and 441-469); the later definition is the one the  *)
(* class keeps, and it only calls push_application, with                   *)
(* create_provider=True.                                                   *)
(***************************************************************************)
\* How the request of fetch_user ends: a user object, an HTTP or network
\* error, a body whose success flag is false, or a body without user data.
WbFetchOutcomes == {"ok", "http_error", "not_success", "no_user_data"}

WbFails(w, exc_type) == [w EXCEPT !.pc = "failed", !.raised = exc_type]

\* fetch_user, lines 240-253, with _make_request (lines 214-238) and
\* WorkBoardUser.from_api_response (lines 98-119).
WbFetchUser ==
    /\ wb.pc = "start"
    /\ \E outcome \in WbFetchOutcomes, data \in WbRawUsers :
         LET w == [wb EXCEPT !.calls = Append(@, "GET user/")] IN
         wb' = IF outcome # "ok" THEN WbFails(w, "APIError")
               ELSE IF ~Truthy(data.user_id) THEN WbFails(w, "ValueError")
               ELSE [w EXCEPT !.pc = "fetched", !.user = data]
    /\ UNCHANGED <<syncVars, http, earlier, calc, export>>

\* WbProcessUser going on to the push whatever process_user did.
WbProcessUser_swallow ==
    /\ wb.pc = "fetched"
    /\ \E r \in wb_process_user(wb.graph, wb.user) :
         wb' = [wb EXCEPT !.pc = "processed", !.graph = r.graph]
    /\ UNCHANGED <<syncVars, http, earlier, calc, export>>

\* process_user, called at line 326.
WbProcessUser ==
    /\ wb.pc = "fetched"
    /\ \E r \in wb_process_user(wb.graph, wb.user) :
         wb' = IF r.raised # "none"
               THEN [WbFails(wb, r.raised) EXCEPT !.graph = r.graph]
               ELSE [wb EXCEPT !.pc = "processed", !.graph = r.graph]
    /\ UNCHANGED <<syncVars, http, earlier, calc, export>>

\* _push_to_oaa, lines 441-469.
WbPush ==
    /\ wb.pc = "processed"
    /\ \E result \in PushResults :
         LET w == [wb EXCEPT !.calls = Append(@, "push_application")] IN
         wb' = IF result.kind = "response"
               THEN [w EXCEPT !.pc = "done", !.sink_provider = TRUE,
                              !.pushed = Append(@, wb.graph)]
               ELSE WbFails(w, result.error.type)
    /\ UNCHANGED <<syncVars, http, earlier, calc, export>>

InitWb ==
    /\ Init
    /\ force = FALSE
    /\ sink_provider = TRUE

\* sync is called on a provider whose sink holds the provider or not.
WbStart ==
    /\ wb.pc = "idle"
    /\ \E exists \in BOOLEAN :
         wb' = [wb EXCEPT !.pc = "start", !.sink_provider = exists]
    /\ UNCHANGED <<syncVars, http, earlier, calc, export>>

NextWb ==
    \/ WbStart
    \/ WbFetchUser
    \/ WbProcessUser
    \/ WbPush

SpecWb == InitWb /\ [][NextWb]_vars

(***************************************************************************)
(* The parameters of a page request as a function of the requested limit:  *)
(* get_paginated_results (lines 397-401) and get_accounts of the export    *)
(* script (tests/sailpoint_users.py, lines 215-223).                       *)
(***************************************************************************)
RequestedLimits == {-1, 0, 1, 2, 3, 100, 249, 250, 251, 252, 500, 1000}

\* query.get('limit', MAX_LIMIT), line 398.
query_limit(has_limit, limit) == IF has_limit THEN limit ELSE MAX_LIMIT

\* The limit parameter of get_accounts, 250 when the caller gives none
\* (line 215).
accounts_limit(has_limit, limit) == IF has_limit THEN limit ELSE 250

\* params of get_accounts, lines 219-223.
get_accounts_params(limit, off) ==
    [limit |-> Min(limit, EXPORT_MAX_LIMIT), offset |-> off]

\* get_paginated_results builds the params of a request for a query.
BuildPageParams ==
    /\ \E has_limit \in BOOLEAN, limit \in RequestedLimits, off \in 0..MaxTotal :
         LET params == PageParams(query_limit(has_limit, limit), off) IN
         calc' = [fn |-> "get_paginated_results",
                  requested |-> IF has_limit THEN limit ELSE 0,
                  default |-> ~has_limit,
                  offset |-> params.offset,
                  limit |-> params.limit]
    /\ UNCHANGED <<syncVars, http, earlier, wb, export>>

\* get_accounts builds the params of a request for its arguments.
BuildAccountsParams ==
    /\ \E has_limit \in BOOLEAN, limit \in RequestedLimits, off \in 0..MaxTotal :
         LET params == get_accounts_params(accounts_limit(has_limit, limit), off) IN
         calc' = [fn |-> "get_accounts",
                  requested |-> IF has_limit THEN limit ELSE 0,
                  default |-> ~has_limit,
                  offset |-> params.offset,
                  limit |-> params.limit]
    /\ UNCHANGED <<syncVars, http, earlier, wb, export>>

InitParams ==
    /\ Init
    /\ force = FALSE
    /\ sink_provider = TRUE

NextParams ==
    \/ BuildPageParams
    \/ BuildAccountsParams

SpecParams == InitParams /\ [][NextParams]_vars

(***************************************************************************)
(* The export script, tests/sailpoint_users.py: main (lines 271-end) with  *)
(* get_accounts (lines 215-239).  The source holds a finite list of        *)
(* accounts, here numbered 1..n, and answers a request with the slice of   *)
(* at most limit items after offset.                                       *)
(***************************************************************************)
MaxAccounts == 4

\* The values of --limit, an unchecked int (line 77).
ExportLimits == {-1, 0, 1, 2, 3, 251}

\* What the source answers to a request: items offset+1 .. offset+limit of
\* its list, as far as they exist.
SliceOf(list, off, limit) ==
    IF limit <= 0 \/ off >= Len(list) THEN <<>>
    ELSE SubSeq(list, off + 1, Min(off + limit, Len(list)))

\* client.get_accounts(limit, offset): the items of the response.
get_accounts(list, limit, off) ==
    SliceOf(list, get_accounts_params(limit, off).offset,
            get_accounts_params(limit, off).limit)

\* The clamp of lines 275-277.
ClampedLimit(limit) == IF limit > EXPORT_MAX_LIMIT THEN EXPORT_MAX_LIMIT ELSE limit

\* main up to the while loop, lines 272-299: the arguments are parsed,
\* the limit is clamped and the first page is requested.
ExportStart ==
    /\ export.pc = "idle"
    /\ \E n \in 0..MaxAccounts, limit \in ExportLimits :
         \E start \in 0..n :
           export' = [pc |-> "paging",
                      source |-> [i \in 1..n |-> i],
                      limit |-> ClampedLimit(limit),
                      start |-> start,
                      offset |-> start,
                      asked |-> {start},
                      current_batch |-> get_accounts([i \in 1..n |-> i],
                                                     ClampedLimit(limit), start),
                      all_accounts |-> get_accounts([i \in 1..n |-> i],
                                                    ClampedLimit(limit), start)]
    /\ UNCHANGED <<syncVars, http, earlier, wb, calc>>

\* One test of the while condition of line 303: a full page leads to the
\* body (lines 304-313), anything else to the end of the loop.
ExportPage ==
    /\ export.pc = "paging"
    /\ IF Len(export.current_batch) = export.limit
       THEN export' = [export EXCEPT
                !.offset = @ + export.limit,
                !.asked = @ \cup {export.offset + export.limit},
                !.current_batch = get_accounts(export.source, export.limit,
                                               export.offset + export.limit),
                !.all_accounts = @ \o get_accounts(export.source, export.limit,
                                                   export.offset + export.limit)]
       ELSE export' = [export EXCEPT !.pc = "done"]
    /\ UNCHANGED <<syncVars, http, earlier, wb, calc>>

InitExport ==
    /\ Init
    /\ force = FALSE
    /\ sink_provider = TRUE

NextExport ==
    \/ ExportStart
    \/ ExportPage

\* The script is a sequential program: it keeps running.
SpecExport == InitExport /\ [][NextExport]_vars /\ WF_vars(NextExport)

(***************************************************************************)
(* Properties.                                                             *)
(***************************************************************************)
RECURSIVE Flatten(_, _)
\* The concatenation of the items of pages i.. of a list of responses.
Flatten(pages, i) ==
    IF i > Len(pages) THEN <<>> ELSE pages[i].items \o Flatten(pages, i + 1)

\* A page request was sent and got no response: the fetch failed.
FetchFailed == Len(requests) > Len(served)

\* The generator returned: every request was answered and the loop broke.
FetchCompleted == ~FetchFailed /\ served # <<>> /\ pc # "fetching"

\* C1: if a page request of the identity fetch fails, at whatever offset
\* and whether or not earlier pages were received, sync raises and
\* push_application is not called in that run.
C1_FetchFailureNoPush ==
    FetchFailed =>
        /\ pc = "failed"
        /\ raised # NoError
        /\ ~InSeq("push_application", calls)
        /\ push_result = NoPush
        /\ pushed = <<>>

\* C1 witness: an APIError at a non-zero offset, after a page was received.
C1_Witness ==
    /\ FetchFailed
    /\ raised.type = "APIError"
    /\ Len(served) >= 1
    /\ requests[Len(requests)].offset > 0

\* The pages served so far are all non-empty and their cumulative length
\* has reached the total the last of them advertised.
ReachedTotal ==
    /\ served # <<>>
    /\ \A i \in 1..Len(served) : served[i].items # <<>>
    /\ Len(Flatten(served, 1)) >= served[Len(served)].total

\* C2: for non-empty pages whose cumulative length reaches the advertised
\* total, get_paginated_results has terminated, with no further request,
\* and what it yielded is the concatenation of the pages in server order.
C2_YieldsConcatenation ==
    ReachedTotal =>
        /\ pc # "fetching"
        /\ Len(requests) = Len(served)
        /\ yielded = Flatten(served, 1)
        /\ identities = Flatten(served, 1)

\* C2 witness: two non-empty pages reached a positive total.
C2_Witness ==
    /\ ReachedTotal
    /\ Len(served) >= 2
    /\ served[Len(served)].total = Len(yielded)
    /\ pc = "processing"

\* C3: an empty page response is the last one: the fetch ends there and no
\* request follows it, even when the advertised total exceeds what was
\* yielded.
C3_EmptyPageTerminates ==
    \A i \in 1..Len(served) :
        served[i].items = <<>> =>
            /\ i = Len(served)
            /\ Len(requests) = i
            /\ pc # "fetching"
            /\ identities = yielded

\* C3 witness: an empty second page under a total that was not reached.
C3_Witness ==
    /\ Len(served) = 2
    /\ served[2].items = <<>>
    /\ served[2].total > Len(yielded)
    /\ Len(yielded) > 0
    /\ pc = "processing"

(***************************************************************************)
(* Properties of the batch stage.  Position p of identities is record      *)
(* j = p - (k-1)*BATCH_SIZE of batch k.                                    *)
(***************************************************************************)
\* The batch loop of sync has handed every fetched record to a batch.
AllBatchesDone == pc # "fetching" /\ batch_start >= Len(identities)

Users == provider_data.local_users
LocalGroups == provider_data.local_groups

\* The record at position p has a usable id that no earlier record carries,
\* and a groups value that is a list: nothing in it makes the try block fail.
Sound(rs, p) ==
    /\ Truthy(rs[p].id)
    /\ ~rs[p].groups.null
    /\ \A q \in 1..(p - 1) : rs[q].id # rs[p].id

\* Number of records of a batch without a usable id.
Unusable(batch) == Cardinality({j \in 1..Len(batch) : ~Truthy(batch[j].id)})

\* The users of the graph once batch k has run.
UsersAfter(k) ==
    IF k < Len(report) THEN report[k + 1].users_before ELSE DOMAIN Users

C5_Pre(k) ==
    LET b == report[k].batch IN
    /\ \A i, j \in 1..Len(b) :
         (i # j /\ Truthy(b[i].id) /\ Truthy(b[j].id)) => b[i].id # b[j].id
    /\ \A j \in 1..Len(b) :
         /\ ~b[j].groups.null
         /\ b[j].id \notin report[k].users_before

\* C5: a batch of N records with pairwise distinct ids, K of them without a
\* usable id and no other failure, ends with processed = N-K, errors = K,
\* and the graph has gained exactly N-K identities.
C5_BatchCounts ==
    \A k \in 1..Len(report) :
        C5_Pre(k) =>
            LET N == Len(report[k].batch)
                K == Unusable(report[k].batch) IN
            /\ report[k].processed = N - K
            /\ report[k].errors = K
            /\ Cardinality(UsersAfter(k)) = Cardinality(report[k].users_before) + N - K
            /\ report[k].users_before \subseteq UsersAfter(k)

\* C5 witness: a batch of N = 2 with K = 1 was processed, and a later
\* batch met its precondition on a graph that already held a user.
C5_Witness ==
    /\ Len(report) = 2
    /\ C5_Pre(1)
    /\ Len(report[1].batch) = 2
    /\ Unusable(report[1].batch) = 1
    /\ report[1].processed = 1
    /\ C5_Pre(2)
    /\ report[2].users_before # {}
    /\ report[2].processed = 1

\* C6: a raw record whose id is absent or empty fails in from_api_response
\* with the validation error, adds no user to the graph, counts as one
\* error, and the records after it are still handled.
C6_MissingIdRejected ==
    /\ \A k \in 1..Len(report) :
         LET b == report[k].batch IN
         /\ Len(report[k].outcomes) = Len(b)
         /\ \A j \in 1..Len(b) :
              ~Truthy(b[j].id) =>
                  /\ report[k].outcomes[j] = "ValueError"
                  /\ \A key \in UsersAfter(k) : key \notin {b[j].id, b[j].name}
         /\ report[k].errors =
                Cardinality({j \in 1..Len(b) : report[k].outcomes[j] # "processed"})
    /\ \A key \in DOMAIN Users : Truthy(Users[key].unique_id)

\* C6 witness: a record with an empty id was followed in its batch by a
\* record that was processed, and a record with an absent id was rejected.
C6_Witness ==
    /\ pc = "done"
    /\ \E k \in 1..Len(report) :
         /\ report[k].batch[1].id = ""
         /\ Len(report[k].batch) >= 2
         /\ report[k].outcomes[2] = "processed"
    /\ \E k \in 1..Len(report) : \E j \in 1..Len(report[k].batch) :
         /\ report[k].batch[j].id = Absent
         /\ report[k].outcomes[j] = "ValueError"

\* C7: when two different identities processed in one run reference the
\* same group (same id and name), the graph ends with exactly one entry for
\* that group and both users carry a membership edge to it.
C7_SharedGroupTwoEdges ==
    AllBatchesDone =>
        \A p, q \in 1..Len(identities) :
            (p < q /\ Sound(identities, p) /\ Sound(identities, q)) =>
                \A i \in 1..Len(identities[p].groups.items) :
                \A j \in 1..Len(identities[q].groups.items) :
                    LET gp == identities[p].groups.items[i]
                        gq == identities[q].groups.items[j] IN
                    (gp = gq /\ Truthy(gp.name)) =>
                        /\ Cardinality({key \in DOMAIN LocalGroups :
                                          LocalGroups[key].name = gp.name}) = 1
                        /\ InSeq(gp.name, Users[identities[p].id].groups)
                        /\ InSeq(gq.name, Users[identities[q].id].groups)

(***************************************************************************)
(* Properties of the order of the steps of sync.                           *)
(***************************************************************************)
\* The step of sync a source or sink call belongs to.
StepOf(call) ==
    CASE call = "token_request" -> 1
      [] call \in {"get_provider", "create_provider", "update_provider_icon"} -> 2
      [] call = "request" -> 3
      [] call = "push_application" -> 4

Count(call) == Cardinality({i \in 1..Len(calls) : calls[i] = call})

C8_Order ==
    /\ \A i, j \in 1..Len(calls) : i < j => StepOf(calls[i]) <= StepOf(calls[j])
    /\ Count("token_request") <= 1
    /\ (Len(calls) > 1 => session_token)
    /\ (InSeq("request", calls) => session_token /\ InSeq("get_provider", calls))
    /\ (report # <<>> => FetchCompleted /\ identities = yielded)
    /\ Count("push_application") <= 1
    /\ (InSeq("push_application", calls) =>
            /\ Len(report) = BatchCount(Len(identities))
            /\ batch_start >= Len(identities))
    /\ (pc = "failed" <=> raised # NoError)

C8_Absorbing ==
    (pc \in {"failed", "done"}) => (calls' = calls /\ pc' = pc)

\* C8: the steps of sync occur in the order authenticate, provider, fetch,
\* batches, push: no call precedes a successful authenticate, no batch is
\* processed before the fetch has completed, push_application is called at
\* most once and only after every batch, and once sync has raised or
\* returned no further source or sink call is made.
C8_StepOrder == []C8_Order /\ [][C8_Absorbing]_vars

\* C8 witness: a complete run with a created provider, two pages and two
\* batches.
C8_Witness ==
    /\ pc = "done"
    /\ InSeq("create_provider", calls)
    /\ Len(requests) >= 2
    /\ Len(report) >= 2

\* C9: if authenticate fails the run fails and the token request is the
\* only call made: no provider lookup or creation, no page request, no push.
C9_AuthFailureFatal ==
    (calls # <<>> /\ ~session_token) =>
        /\ pc = "failed"
        /\ raised # NoError
        /\ calls = <<"token_request">>
        /\ requests = <<>>
        /\ push_result = NoPush
        /\ pushed = <<>>

\* C9 witness: the token request failed with an HTTP or network error.
C9_Witness ==
    /\ calls = <<"token_request">>
    /\ ~session_token
    /\ raised.type = "APIError"

IsWarningLine(l) == l.msg = "Push warning"
IsDetailLine(l) == l.msg = "Detail"

\* The arg fields of a list of log lines.
Args(lines) == [i \in 1..Len(lines) |-> lines[i].arg]

\* C10: a push response, with or without warnings, lets sync return
\* normally with each warning logged; an OAAClientError raised by
\* push_application leaves sync as that same error, its details logged one
\* line each, and nothing is committed.
C10_PushOutcome ==
    /\ push_result.kind = "response" =>
         /\ pc = "done"
         /\ raised = NoError
         /\ Args(SelectSeq(log, IsWarningLine)) = push_result.warnings
    /\ (push_result.kind = "raise" /\ push_result.error.type = "OAAClientError") =>
         /\ pc = "failed"
         /\ raised = push_result.error
         /\ Args(SelectSeq(log, IsDetailLine)) = push_result.error.details
         /\ pushed = <<>>

\* C10 witness: the push raised OAAClientError with two details.
C10_Witness ==
    /\ push_result.kind = "raise"
    /\ raised.type = "OAAClientError"
    /\ Len(raised.details) = 2

\* C10, the other case reached: a response with two warnings.
C10_WitnessWarnings ==
    /\ push_result.kind = "response"
    /\ Len(push_result.warnings) = 2
    /\ pc = "done"

(***************************************************************************)
(* C11.  sync, lines 574-593, with process_identities_batch.               *)
(***************************************************************************)
ErrorsCounted == Cardinality({k \in 1..Len(report) : report[k].errors > 0})

AllRecordsErrors ==
    /\ Len(report) = BatchCount(Len(identities))
    /\ \A k \in 1..Len(report) :
         report[k].processed = 0 /\ report[k].errors = Len(report[k].batch)

IconWarning == LogLine("warning", "Failed to update provider icon", "", 0)

\* The calls a step adds to the record of calls.
NewCalls == SubSeq(calls', Len(calls) + 1, Len(calls'))

C12_Step ==
    (pc = "authenticated" /\ NewCalls # <<>>) =>
      /\ NewCalls[1] = "get_provider"
      /\ InSeq("create_provider", NewCalls) <=>
           /\ ~sink_provider
           /\ ~(NewCalls = <<"get_provider">> /\ pc' = "failed")
      /\ InSeq("update_provider_icon", NewCalls) =>
           /\ NewCalls = <<"get_provider", "create_provider", "update_provider_icon">>
           /\ ~sink_provider /\ sink_provider'
           /\ pc' = "fetching"
           /\ raised' = NoError
      /\ InSeq(IconWarning, log') => InSeq("update_provider_icon", NewCalls)

\* C12: the provider step calls get_provider first, calls create_provider
\* exactly when get_provider returned no provider, attempts
\* update_provider_icon only after creating the provider, and goes on to
\* the fetch whether or not update_provider_icon failed.
C12_GetOrCreate == [][C12_Step]_vars

C12_Witness ==
    /\ pc = "done"
    /\ InSeq(IconWarning, log)
    /\ InSeq("update_provider_icon", calls)
    /\ raised = NoError

(***************************************************************************)
(* C13.  sync, lines 562-567, with force.                                  *)
(***************************************************************************)
\* C13: with force set, once authentication has succeeded the run deletes
\* the provider and goes on to the provider lookup, as it does without
\* force.
C13_ForceRecreates ==
    (force /\ session_token /\ pc # "authenticated") =>
      /\ InSeq("delete_provider", calls)
      /\ InSeq("get_provider", calls)

(***************************************************************************)
(* C17.  authenticate, lines 299-343.                                      *)
(***************************************************************************)
\* C17: a run that failed in authenticate failed with APIError.
C17_AuthFailureIsAPIError ==
    (pc = "failed" /\ calls = <<"token_request">>) => raised.type = "APIError"

(***************************************************************************)
(* C19, C20.  The offsets and the number of requests of                    *)
(* get_paginated_results, lines 393-432.                                   *)
(***************************************************************************)
RECURSIVE ItemsBefore(_, _)
\* The number of items in the first i - 1 pages of a list of responses.
ItemsBefore(pages, i) ==
    IF i <= 1 THEN 0
    ELSE ItemsBefore(pages, i - 1) + Len(pages[i - 1].items)

\* C19: the offset of every page request is the number of items all
\* earlier pages of the fetch returned, 0 for the first, and the offset
\* kept by the loop is the number of items returned so far: a short page
\* advances it by its length, not by the limit.
C19_OffsetIsItemsSoFar ==
    /\ \A i \in 1..Len(requests) :
         /\ i <= Len(served) + 1
         /\ requests[i].offset = ItemsBefore(served, i)
    /\ offset = ItemsBefore(served, Len(served) + 1)

\* C19 witness: a third request after two pages, the first one short.
C19_Witness ==
    /\ Len(requests) = 3
    /\ Len(served) >= 2
    /\ Len(served[1].items) = 1
    /\ Len(served[2].items) = 1
    /\ requests[2].offset = 1
    /\ requests[3].offset = 2
    /\ requests[3].limit = MAX_LIMIT

\* Pages of 2 items and then 1 item, each advertising a total of 3.
TwoThenOne ==
    /\ Len(served) >= 2
    /\ Len(served[1].items) = 2 /\ served[1].total = 3
    /\ Len(served[2].items) = 1 /\ served[2].total = 3

\* C20: every request after the first follows a non-empty page that left
\* the offset below the total it advertised, so there is one request per
\* non-empty page and none once the offset has reached the total; for
\* pages of 2 and 1 items under a total of 3 there are exactly two
\* requests, at offsets 0 and 2.
C20_OneRequestPerPage ==
    /\ Len(requests) \in {Len(served), Len(served) + 1}
    /\ \A i \in 2..Len(requests) :
         /\ served[i - 1].items # <<>>
         /\ ItemsBefore(served, i) < served[i - 1].total
    /\ TwoThenOne =>
         /\ Len(served) = 2
         /\ Len(requests) = 2
         /\ requests[1].offset = 0
         /\ requests[2].offset = 2
         /\ pc # "fetching"
         /\ Len(identities) = 3

C20_Witness ==
    /\ TwoThenOne
    /\ pc = "done"
    /\ Count("request") = 2

(***************************************************************************)
(* C14, C15, C16, C18.  The session layer: the attempts of one API call,   *)
(* lines 265-288, 290-343 and 345-377.                                     *)
(***************************************************************************)
Attempts == Len(http.outcomes)

\* C14 as stated: at most 3 HTTP attempts are sent for one API call.
C14_AtMostThreeAttempts == Attempts <= 3

\* C14: one API call sends at most MAX_RETRIES + 1 HTTP attempts, the
\* first and MAX_RETRIES retries; a call still sending has retries left,
\* and a call that failed failed with APIError.
C14_AtMostFourAttempts ==
    /\ Attempts <= MAX_RETRIES + 1
    /\ http.phase = "sending" => Attempts <= MAX_RETRIES
    /\ http.phase = "sending" => http.retries_left = MAX_RETRIES - Attempts
    /\ http.phase = "raised" => http.error = "APIError"

\* C14 witness: a call failed after the fourth attempt, retries exhausted.
C14_Witness ==
    /\ http.call = "_make_request"
    /\ http.phase = "raised"
    /\ Attempts = MAX_RETRIES + 1
    /\ http.retries_left < 0
    /\ http.error = "APIError"

\* The transient statuses, written out.
TransientStatuses == {429, 500, 502, 503, 504}

NetworkOrTransient(o) == o.kind = "network" \/ o.status \in TransientStatuses

\* A 413 response that carries a Retry-After header.
TooLargeRetryAfter(o) == o.kind = "status" /\ o.status = 413 /\ o.retry_after

OtherClientError(o) ==
    o.kind = "status" /\ o.status \in 400..499 /\ o.status \notin TransientStatuses

\* Attempt i was the last one and the call failed with APIError carrying
\* the status of its response.
FailsAt(i) ==
    /\ i = Attempts
    /\ http.phase = "raised"
    /\ http.error = "APIError"
    /\ http.status_code = http.outcomes[i].status

\* C15 as stated: an attempt is followed by another only after a network
\* exception or a status in {429, 500, 502, 503, 504}, and any other 4xx
\* response ends the call with APIError carrying its status.
C15_RetryOnlyTransient ==
    http.call = "_make_request" =>
      /\ \A i \in 1..(Attempts - 1) : NetworkOrTransient(http.outcomes[i])
      /\ \A i \in 1..Attempts : OtherClientError(http.outcomes[i]) => FailsAt(i)

\* C15: an attempt is followed by another only after a network exception,
\* a status in {429, 500, 502, 503, 504}, or a 413 response with a
\* Retry-After header; any other 4xx response, and a 413 with Retry-After
\* when no retry is left, ends the call with APIError carrying its status.
C15_RetryConditions ==
    /\ \A i \in 1..(Attempts - 1) :
         NetworkOrTransient(http.outcomes[i]) \/ TooLargeRetryAfter(http.outcomes[i])
    /\ \A i \in 1..Attempts :
         (OtherClientError(http.outcomes[i]) /\ ~TooLargeRetryAfter(http.outcomes[i]))
            => FailsAt(i)
    /\ \A i \in 1..Attempts :
         TooLargeRetryAfter(http.outcomes[i]) =>
            \/ i < Attempts
            \/ i <= MAX_RETRIES /\ http.phase = "sending"
            \/ i = MAX_RETRIES + 1 /\ FailsAt(i)

\* C15 witness: a 404 after a retried 500 failed the call with status 404,
\* on a call made through _make_request.
C15_Witness ==
    /\ http.call = "_make_request"
    /\ Attempts = 2
    /\ http.outcomes[1] = Status(500, FALSE)
    /\ http.outcomes[2] = Status(404, TRUE)
    /\ FailsAt(2)
    /\ http.status_code = 404

\* C15 witness of the 413 case: a 413 with Retry-After was re-attempted.
C15_WitnessRetryAfter ==
    /\ Attempts = 2
    /\ TooLargeRetryAfter(http.outcomes[1])
    /\ http.outcomes[2] = Status(200, FALSE)
    /\ http.phase = "returned"

\* C16: two consecutive calls of _make_request start at least the rate
\* limit apart.
C16_MinSpacing ==
    \A i \in 1..(Len(http.call_times) - 1) :
        (http.call_times[i].call = "_make_request"
            /\ http.call_times[i + 1].call = "_make_request")
        => http.call_times[i + 1].at - http.call_times[i].at >= DEFAULT_RATE_LIMIT

\* C18: when every attempt of the token request met a network failure,
\* authenticate reports the failure after MAX_RETRIES attempts.
C18_AuthFailsAfterMaxRetries ==
    (/\ http.call = "authenticate"
     /\ http.phase = "raised"
     /\ \A i \in 1..Attempts : http.outcomes[i] = Network)
    => (http.body_calls = MAX_RETRIES \/ Attempts = MAX_RETRIES)

(***************************************************************************)
(* C21.  get_paginated_results when X-Total-Count is absent, lines         *)
(* 413-432.                                                                *)
(***************************************************************************)
\* C21: a non-empty first page that comes with a total of 0 (the header
\* absent) is yielded and is the only page requested.
C21_NoHeaderStopsAfterFirstPage ==
    (served # <<>> /\ served[1].total = 0 /\ served[1].items # <<>>) =>
      /\ Len(served) = 1
      /\ Len(requests) = 1
      /\ requests[1].offset = 0
      /\ pc # "fetching"
      /\ yielded = served[1].items
      /\ identities = served[1].items

C21_Witness ==
    /\ pc = "done"
    /\ served[1].total = 0
    /\ Len(served[1].items) = MaxPageLen
    /\ Len(pushed) = 1

(***************************************************************************)
(* C22.  A failing page request, lines 409-436.                            *)
(***************************************************************************)
FetchErrorLines ==
    {i \in 1..Len(log) : log[i].msg = "Failed to fetch page at offset"}

\* C22: when a page request fails with APIError the run has failed with
\* that error and no request follows the failed one; the one offset logged
\* is the number of items of the pages received before it, and those items
\* are what was yielded, in order.
C22_FetchFailureReport ==
    (FetchFailed /\ raised.type = "APIError") =>
      /\ pc = "failed"
      /\ Len(requests) = Len(served) + 1
      /\ yielded = Flatten(served, 1)
      /\ Cardinality(FetchErrorLines) = 1
      /\ \A i \in FetchErrorLines :
           /\ log[i].n = Len(Flatten(served, 1))
           /\ log[i].n = requests[Len(requests)].offset

C22_Witness ==
    /\ FetchFailed
    /\ raised.type = "APIError"
    /\ Len(served) = 2
    /\ Len(yielded) = 2
    /\ \E i \in FetchErrorLines : log[i].n = 2

(***************************************************************************)
(* C23.  Two records with the same id, lines 480-533.                      *)
(***************************************************************************)
\* C23: a record with a non-empty id and a groups list is processed, not
\* counted as an error, whether or not an earlier record of the run had
\* the same id; the graph holds one identity for the id.
C23_DuplicateIdUpsert ==
    \A k \in 1..Len(report) : \A j \in 1..Len(report[k].outcomes) :
        (Truthy(report[k].batch[j].id) /\ ~report[k].batch[j].groups.null) =>
          /\ report[k].outcomes[j] = "processed"
          /\ report[k].batch[j].id \in DOMAIN Users

(***************************************************************************)
(* C24.  The permission step, lines 519-526.                               *)
(***************************************************************************)
\* C24: the identity of a processed record holds exactly one "access"
\* grant when the record's email is present and non-empty, and no grant
\* otherwise.
C24_AccessIffEmail ==
    \A k \in 1..Len(report) : \A j \in 1..Len(report[k].outcomes) :
        report[k].outcomes[j] = "processed" =>
          LET rec == report[k].batch[j] IN
          /\ rec.id \in DOMAIN Users
          /\ Users[rec.id].permissions =
               (IF Truthy(rec.email) THEN <<"access">> ELSE <<>>)

C24_Witness ==
    /\ AllBatchesDone
    /\ pc = "done"
    /\ \E k \in 1..Len(report) : \E j \in 1..Len(report[k].outcomes) :
         /\ report[k].outcomes[j] = "processed"
         /\ Truthy(report[k].batch[j].email)
         /\ Users[report[k].batch[j].id].permissions = <<"access">>
    /\ \E k \in 1..Len(report) : \E j \in 1..Len(report[k].outcomes) :
         /\ report[k].outcomes[j] = "processed"
         /\ report[k].batch[j].email = Absent
         /\ Users[report[k].batch[j].id].permissions = <<>>
    /\ \E k \in 1..Len(report) : \E j \in 1..Len(report[k].outcomes) :
         /\ report[k].outcomes[j] = "processed"
         /\ report[k].batch[j].email = ""

(***************************************************************************)
(* C26.  The batch loop of sync, lines 576-590.                            *)
(***************************************************************************)
RECURSIVE BatchesConcat(_, _)
\* The concatenation of the batches k.. handed to process_identities_batch.
BatchesConcat(rep, k) ==
    IF k > Len(rep) THEN <<>> ELSE rep[k].batch \o BatchesConcat(rep, k + 1)

\* The ids the batches 1..k added to the graph: those of the records that
\* got past add_local_user.
AddedIds(k) ==
    UNION {{report[k2].batch[j].id :
              j \in {j2 \in 1..Len(report[k2].outcomes) :
                       report[k2].outcomes[j2] \in {"processed", "TypeError"}}} :
           k2 \in 1..k}

\* C26: the batches handed to process_identities_batch are consecutive
\* slices of the fetched list, in order and without overlap; each holds at
\* most BATCH_SIZE records and each but the last exactly BATCH_SIZE; once
\* the loop is over they make up the whole list; each batch is applied to
\* the graph the earlier ones left.
C26_BatchesPartition ==
    /\ Len(report) <= BatchCount(Len(identities))
    /\ BatchesConcat(report, 1) =
         SubSeq(identities, 1, Len(BatchesConcat(report, 1)))
    /\ \A k \in 1..Len(report) :
         /\ Len(report[k].batch) \in 1..BATCH_SIZE
         /\ k < BatchCount(Len(identities)) => Len(report[k].batch) = BATCH_SIZE
         /\ report[k].users_before = AddedIds(k - 1)
    /\ DOMAIN Users = AddedIds(Len(report))
    /\ AllBatchesDone =>
         /\ Len(report) = BatchCount(Len(identities))
         /\ BatchesConcat(report, 1) = identities

C26_Witness ==
    /\ pc = "done"
    /\ Len(identities) = BATCH_SIZE + 1
    /\ Len(report) = 2
    /\ Len(report[1].batch) = BATCH_SIZE
    /\ Len(report[2].batch) = 1
    /\ report[2].users_before # {}
    /\ Cardinality(DOMAIN Users) > Cardinality(report[2].users_before)

(***************************************************************************)
(* C25.  A failing permission step, lines 485-533.                         *)
(***************************************************************************)
\* The names of the named groups of a record, in order.
NamedGroups(rec) ==
    LET idx == {i \in 1..Len(rec.groups.items) : Truthy(rec.groups.items[i].name)}
        Rank(i) == Cardinality({i2 \in idx : i2 <= i})
    IN  [n \in 1..Cardinality(idx) |->
            rec.groups.items[CHOOSE i \in idx : Rank(i) = n].name]

\* Record j of batch k got as far as the permission step, which raised.
PermissionFailed(k, j) ==
    /\ report[k].outcomes[j] = "OAATemplateException"
    /\ report[k].batch[j].id \notin report[k].users_before
    /\ \A j2 \in 1..(j - 1) : report[k].batch[j2].id # report[k].batch[j].id

\* C25: a record whose permission step fails stays in the graph with its
\* properties and without a grant, is counted as one error, and the
\* records after it in the batch are still handled; the first record of a
\* run, whose groups meet an empty graph, keeps all its named groups; and
\* a user that holds a grant has its properties set.
C25_PermissionFailureIsolated ==
    /\ \A k \in 1..Len(report) : \A j \in 1..Len(report[k].outcomes) :
         PermissionFailed(k, j) =>
           LET rec == report[k].batch[j] IN
           /\ rec.id \in DOMAIN Users
           /\ Users[rec.id].permissions = <<>>
           /\ Users[rec.id].properties["sailpoint_id"] = rec.id
           /\ Users[rec.id].properties["email"] = rec.email
           /\ (k = 1 /\ j = 1) => Users[rec.id].groups = NamedGroups(rec)
           /\ Len(report[k].outcomes) = Len(report[k].batch)
           /\ report[k].errors >= 1
           /\ report[k].processed + report[k].errors = Len(report[k].batch)
    /\ \A id \in DOMAIN Users :
         Users[id].permissions # <<>> => "sailpoint_id" \in DOMAIN Users[id].properties
    /\ pc = "failed" => push_result.kind = "raise"

C25_Witness ==
    /\ pc = "done"
    /\ Len(report) = 2
    /\ PermissionFailed(1, 1)
    /\ Users[report[1].batch[1].id].groups # <<>>
    /\ report[1].outcomes[2] = "processed"
    /\ report[2].outcomes = <<"processed">>
    /\ Cardinality(DOMAIN Users) = 3

(***************************************************************************)
(* C27.  Timestamps that cannot be formatted, WorkBoard lines 145-158 and  *)
(* 265-267.                                                                *)
(***************************************************************************)
\* C27: once process_user has run on a fetched user, whatever its
\* timestamps, nothing was raised by format_timestamp and the user is in
\* the graph, complete.
C27_TimestampNeverFailsRecord ==
    (wb.user # NoWbUser /\ wb.pc # "fetched") =>
      /\ wb.raised \notin {"OverflowError", "OSError", "ValueError", "TypeError"}
      /\ wb.user.user_id \in DOMAIN wb.graph.local_users
      /\ wb.graph.local_users[wb.user.user_id].is_active

(***************************************************************************)
(* C29.  The limit of a page request.                                      *)
(***************************************************************************)
\* The limit asked for: 250 when the caller gave none.
AskedLimit == IF calc.default THEN 250 ELSE calc.requested

\* C29: the limit a page request carries is at most 250 and is the smaller
\* of the requested limit and 250, in get_paginated_results and in
\* get_accounts.
C29_LimitClamped ==
    calc.fn # "none" =>
      /\ calc.limit <= 250
      /\ calc.limit = (IF AskedLimit <= 250 THEN AskedLimit ELSE 250)

C29_Witness ==
    /\ calc.fn = "get_paginated_results"
    /\ calc.requested = 1000
    /\ calc.limit = 250

C29_WitnessExport ==
    /\ calc.fn = "get_accounts"
    /\ calc.requested = 251
    /\ calc.limit = 250

(***************************************************************************)
(* C28.  Determinism of the transformation and of the graph, lines         *)
(* 134-159 and 544-598.                                                    *)
(***************************************************************************)
\* The fields of a user that from_api_response and lines 486-502 derive
\* from its record alone.
Derived(user) ==
    [name |-> user.name, identities |-> user.identities,
     unique_id |-> user.unique_id, created_at |-> user.created_at,
     last_login_at |-> user.last_login_at, properties |-> user.properties]

IdsOf(records) == {records[j].id : j \in 1..Len(records)}

GroupKeysOf(records) ==
    UNION {{Identifier(GetOr(records[j].groups.items[i].id,
                             records[j].groups.items[i].name),
                       records[j].groups.items[i].name) :
              i \in 1..Len(records[j].groups.items)} : j \in 1..Len(records)}

\* C30: the graph of a call holds only identities and groups of records
\* fetched in that call, whatever an earlier call on the same object
\* built, and what a call pushes is that graph.
C30_GraphFromScratch ==
    /\ DOMAIN Users \subseteq IdsOf(identities)
    /\ DOMAIN LocalGroups \subseteq GroupKeysOf(identities)
    /\ pc = "done" => pushed[Len(pushed)] = provider_data
    /\ (pc = "processing" /\ batch_start = 0) => provider_data = create_provider_data

C30_Witness ==
    /\ Len(earlier) = 1
    /\ earlier[1].completed
    /\ "u1" \in DOMAIN earlier[1].graph.local_users
    /\ "g1" \in DOMAIN earlier[1].graph.local_groups
    /\ pc = "done"
    /\ Len(pushed) = 2
    /\ DOMAIN pushed[2].local_users = {"u2"}
    /\ "u1" \notin DOMAIN pushed[2].local_users

(***************************************************************************)
(* C31.  sync, lines 555-598, with _get_or_create_provider, lines 600-631. *)
(***************************************************************************)
\* The calls of the sink client that change the sink.
MutatingSinkCalls == {"create_provider", "update_provider_icon", "push_application"}

\* C31: a run that failed without reaching the push step has made no
\* mutating call on the sink.
C31_FailedRunLeavesSink ==
    (pc = "failed" /\ ~InSeq("push_application", calls)) =>
        \A i \in 1..Len(calls) : calls[i] \notin MutatingSinkCalls

(***************************************************************************)
(* C32.  The push step of WorkBoardOAAProvider.sync.  The class body       *)
(* defines _push_to_oaa at lines 340-380 and again at lines 441-469; the   *)
(* later definition replaces the earlier one, so sync (line 329) runs the  *)
(* one of lines 441-469.                                                   *)
(***************************************************************************)
\* The position of the first occurrence of a call in wb.calls, 0 if none.
WbFirst(call) ==
    IF \E i \in 1..Len(wb.calls) : wb.calls[i] = call
    THEN CHOOSE i \in 1..Len(wb.calls) :
           /\ wb.calls[i] = call
           /\ \A j \in 1..(i - 1) : wb.calls[j] # call
    ELSE 0

\* C32: when the push step has called push_application, it has before that
\* looked the provider up and updated the provider icon.
C32_WbProviderSetupBeforePush ==
    WbFirst("push_application") > 0 =>
        /\ WbFirst("get_provider") > 0
        /\ WbFirst("get_provider") < WbFirst("update_provider_icon")
        /\ WbFirst("update_provider_icon") < WbFirst("push_application")

(***************************************************************************)
(* C33.  The permission of process_user, lines 278-307.                    *)
(***************************************************************************)
\* The user process_user added to the graph, once it returned.
WbProcessed == wb.pc \in {"processed", "done"}

WbUser == wb.graph.local_users[wb.user.user_id]

TitleIsAdmin == Truthy(wb.user.title) /\ ContainsAdmin(wb.user.title)

RoleIsAdmin(i) ==
    Truthy(wb.user.manager[i].role) /\ ContainsAdmin(wb.user.manager[i].role)

C33_WitnessUser ==
    /\ WbProcessed
    /\ wb.user.title = "Engineer"
    /\ wb.user.manager = <<Manager("m1", "Lead")>>
    /\ WbUser.permissions = <<"user">>

(***************************************************************************)
(* C34.  WorkBoardOAAProvider.sync, lines 313-338, with fetch_user (lines  *)
(* 214-253) and process_user (lines 255-311).                              *)
(***************************************************************************)
\* fetch_user returned a user.
WbFetched == wb.user # NoWbUser

\* process_user ran to its end for the fetched user.
WbBuilt ==
    /\ WbFetched
    /\ wb.user.user_id \in DOMAIN wb.graph.local_users
    /\ WbUser.is_active
    /\ Len(WbUser.permissions) = 1

\* C34: push_application is called only after fetch_user returned a user
\* and process_user built it; a run in which either of them failed has
\* raised, has not called push_application and has pushed nothing.
C34_WbFailureMeansNoPush ==
    /\ InSeq("push_application", wb.calls) => WbBuilt
    /\ (wb.pc = "failed" /\ ~WbBuilt) =>
          /\ wb.raised # "none"
          /\ ~InSeq("push_application", wb.calls)
          /\ wb.pushed = <<>>
    /\ (wb.pc \in {"processed", "done"}) => WbBuilt

\* process_user failed on a timestamp after the user was fetched.
C34_Witness ==
    /\ wb.pc = "failed"
    /\ WbFetched
    /\ ~WbBuilt
    /\ wb.raised \in {"OverflowError", "OSError"}
    /\ wb.calls = <<"GET user/">>

\* fetch_user failed.
C34_WitnessFetch ==
    /\ wb.pc = "failed"
    /\ ~WbFetched
    /\ wb.raised \in {"APIError", "ValueError"}
    /\ wb.calls = <<"GET user/">>

(***************************************************************************)
(* C35.  The page loop of the export script, main lines 287-316.           *)
(***************************************************************************)
\* The accounts of the source from the start offset on.
FromStart ==
    IF export.start >= Len(export.source) THEN <<>>
    ELSE SubSeq(export.source, export.start + 1, Len(export.source))

\* C35: the loop ends, having collected every account from the start
\* offset on exactly once and in order.
C35_ExportTerminatesComplete ==
    <>(export.pc = "done" /\ export.all_accounts = FromStart)

\* The same for a limit of at least one, with the offsets asked for:
\* start, start + limit, ... up to the first page that is not full.
ExportStopsForPositiveLimit ==
    (export.pc = "paging" /\ export.limit >= 1) ~> (export.pc = "done")

ExportCompleteForPositiveLimit ==
    (export.pc = "done" /\ export.limit >= 1) =>
        /\ export.all_accounts = FromStart
        /\ \A o \in export.asked :
             /\ o >= export.start
             /\ (o - export.start) % export.limit = 0
             /\ o <= Len(export.source)
        /\ Len(export.current_batch) < export.limit

(***************************************************************************)
(* C36.  The counters of process_identities_batch, lines 477-537.          *)
(***************************************************************************)
\* The number of records of batch k whose try block ended in one of ends.
Ended(k, ends) ==
    Cardinality({j \in 1..Len(report[k].outcomes) : report[k].outcomes[j] \in ends})

\* C36: for every batch handed to process_identities_batch, each record
\* ended its try block once, processed counts those that reached line 526,
\* errors those that raised, and the two add up to the size of the batch.
C36_EveryRecordCountedOnce ==
    \A k \in 1..Len(report) :
        /\ Len(report[k].outcomes) = Len(report[k].batch)
        /\ report[k].processed = Ended(k, {"processed"})
        /\ report[k].errors =
              Ended(k, {"ValueError", "OAATemplateException", "TypeError"})
        /\ report[k].processed + report[k].errors = Len(report[k].batch)

\* A batch with a processed record, a rejected one and one that failed
\* after it was added.
C36_Witness ==
    \E k \in 1..Len(report) :
        /\ report[k].processed >= 1
        /\ report[k].errors >= 1
        /\ Ended(k, {"TypeError", "OAATemplateException"}) >= 1
        /\ Len(report[k].batch) = BATCH_SIZE

(***************************************************************************)
(* C37.  The graph against the counters, lines 480-533.                    *)
(***************************************************************************)
RECURSIVE ProcessedUpTo(_)
\* The processed counts of batches 1..k, added up.
ProcessedUpTo(k) ==
    IF k = 0 THEN 0 ELSE report[k].processed + ProcessedUpTo(k - 1)

\* C37: after any number of batches the graph holds as many identities as
\* records were counted as processed.
C37_GraphSizeIsProcessedCount ==
    Cardinality(DOMAIN Users) = ProcessedUpTo(Len(report))

(***************************************************************************)
(* C39.  The group loop inside the try block, lines 504-526.               *)
(***************************************************************************)
\* Record j of batch k reached line 526.
Processed(k, j) == report[k].outcomes[j] = "processed"

\* The named group at position i of record j of batch k is missing from
\* the user's groups: creating it or adding the membership failed.
GroupFailed(k, j, i) ==
    LET rec == report[k].batch[j] IN
    /\ Truthy(rec.groups.items[i].name)
    /\ ~InSeq(rec.groups.items[i].name, Users[rec.id].groups)

\* The identifier the group would have been created under is taken, and
\* its name is no key of local_groups.
GroupBlocked(group) ==
    /\ group.name \notin DOMAIN LocalGroups
    /\ Identifier(GetOr(group.id, group.name), group.name) \in DOMAIN LocalGroups

\* C39: a processed record has every named group among its user's groups
\* but those whose creation was refused; each refusal is one warning and
\* no error; a group without a name adds neither a membership nor a
\* warning; and the permission follows the email as for any other record.
C39_GroupFailureConfined ==
    \A k \in 1..Len(report) :
      /\ \A j \in 1..Len(report[k].batch) :
           Processed(k, j) =>
             LET rec == report[k].batch[j] IN
             /\ rec.id \in DOMAIN Users
             /\ \A i \in 1..Len(rec.groups.items) :
                  GroupFailed(k, j, i) => GroupBlocked(rec.groups.items[i])
             /\ \A n \in 1..Len(Users[rec.id].groups) :
                  \E i \in 1..Len(rec.groups.items) :
                     rec.groups.items[i].name = Users[rec.id].groups[n]
             /\ Users[rec.id].permissions =
                  (IF Truthy(rec.email) THEN <<"access">> ELSE <<>>)
      /\ report[k].warnings =
           Cardinality({p \in UNION {{<<j, i>> :
                                         i \in 1..Len(report[k].batch[j].groups.items)} :
                                      j \in 1..Len(report[k].batch)} :
                          Processed(k, p[1]) /\ GroupFailed(k, p[1], p[2])})
      /\ report[k].errors = Ended(k, {"ValueError", "OAATemplateException", "TypeError"})

\* bob follows alice: his first group is refused, his second is handled;
\* carol's nameless group is skipped; all are processed.
C39_Witness ==
    /\ Len(report) >= 1
    /\ Len(report[1].batch) = 2
    /\ report[1].batch[1] = RecAlice
    /\ report[1].batch[2] = RecBob
    /\ report[1].outcomes = <<"processed", "processed">>
    /\ report[1].warnings = 1
    /\ report[1].errors = 0
    /\ Users["u2"].groups = <<"Ops">>

\* alice follows bob: her group is refused and her permission is granted.
C39_WitnessPermission ==
    /\ Len(report) >= 1
    /\ report[1].batch = <<RecBob, RecAlice>>
    /\ report[1].outcomes = <<"processed", "processed">>
    /\ report[1].warnings = 1
    /\ Users["u1"].groups = <<>>
    /\ Users["u1"].permissions = <<"access">>

\* carol alone: the nameless group is skipped without a warning.
C39_WitnessNameless ==
    /\ Len(report) = 1
    /\ report[1].batch = <<RecCarol>>
    /\ report[1].outcomes = <<"processed">>
    /\ report[1].warnings = 0
    /\ Users["u3"].groups = <<"Ops">>

(***************************************************************************)
(* C38.  Termination of get_paginated_results, lines 393-436.              *)
(***************************************************************************)
\* Every page served so far advertised the total T.
SameTotal(T) == \A i \in 1..Len(served) : served[i].total = T

\* Every request so far was answered.
AllAnswered == Len(requests) = Len(served)

RequestsWithinTotal ==
    \A T \in 1..MaxTotal :
        (SameTotal(T) /\ AllAnswered) =>
            /\ Len(requests) <= T
            /\ (Len(requests) = T => pc # "fetching")

\* C38: against a source that answers every request and advertises the
\* same total T >= 1 on every page, the loop makes at most T requests and
\* has stopped once it made T; and the loop, once entered, is left.
C38_PaginationTerminates ==
    /\ []RequestsWithinTotal
    /\ (pc = "fetching") ~> (pc # "fetching")

\* T = MaxTotal pages of one item each, the last one ending the loop.
C38_Witness ==
    /\ pc = "processing"
    /\ Len(requests) = MaxTotal
    /\ AllAnswered
    /\ SameTotal(MaxTotal)
    /\ Len(yielded) = MaxTotal

====
